---- MODULE Spec2Model ----
(***************************************************************************)
(* A model of the table classification and extraction pipeline of the      *)
(* H3C product specification extractor:                                    *)
(*   scripts/direct_extractor.py   DirectTableExtractor                     *)
(*   core/universal_extractor.py   UniversalExtractor                       *)
(*   core/rule_engine.py           ExtractionRule, ProductProfile,          *)
(*                                 RuleEngine                               *)
(*                                                                         *)
(* Python str values are TLA+ strings; a character is a string of length   *)
(* one.  A non-ASCII character of the source is written {xxxx}, its code    *)
(* point in lower-case hexadecimal (the module's alphabet is ASCII), so     *)
(* that the substring relation between the source's literals is kept.      *)
(* A dict value that is a str is written [str |-> s], one that is an int    *)
(* [int |-> n].                                                            *)
(***************************************************************************)
EXTENDS Integers, Sequences, FiniteSets, TLC

(***************************************************************************)
(* str                                                                     *)
(***************************************************************************)
UpperCase ==
    ("A" :> "a") @@ ("B" :> "b") @@ ("C" :> "c") @@ ("D" :> "d") @@ ("E" :> "e") @@
    ("F" :> "f") @@ ("G" :> "g") @@ ("H" :> "h") @@ ("I" :> "i") @@ ("J" :> "j") @@
    ("K" :> "k") @@ ("L" :> "l") @@ ("M" :> "m") @@ ("N" :> "n") @@ ("O" :> "o") @@
    ("P" :> "p") @@ ("Q" :> "q") @@ ("R" :> "r") @@ ("S" :> "s") @@ ("T" :> "t") @@
    ("U" :> "u") @@ ("V" :> "v") @@ ("W" :> "w") @@ ("X" :> "x") @@ ("Y" :> "y") @@
    ("Z" :> "z")

LowerLetters == {UpperCase[c] : c \in DOMAIN UpperCase}
DigitValue ==
    ("0" :> 0) @@ ("1" :> 1) @@ ("2" :> 2) @@ ("3" :> 3) @@ ("4" :> 4) @@
    ("5" :> 5) @@ ("6" :> 6) @@ ("7" :> 7) @@ ("8" :> 8) @@ ("9" :> 9)

\* the character classes of the source's patterns
Digits == DOMAIN DigitValue                                 \* \d
Uppers == DOMAIN UpperCase                                  \* [A-Z]
Letters == Uppers \cup LowerLetters                         \* [A-Za-z]
WordDash == Letters \cup Digits \cup {"_", "-"}             \* [\w\-]
Spaces == {" ", "\t", "\n", "\r", "\f"}                      \* \s
ColonOrSpace == Spaces \cup {":"}                           \* [:\s]
CountChars == Digits \cup Spaces \cup {"x", "X", "/"}       \* [0-9x\s/]

IsDigit(c) == c \in Digits
IsSpace(c) == c \in Spaces

\* s[i-1] of Python, "" outside the string
At(s, i) == IF 1 <= i /\ i <= Len(s) THEN SubSeq(s, i, i) ELSE ""

\* s[i-1:] of Python
From(s, i) == IF i > Len(s) THEN "" ELSE SubSeq(s, i, Len(s))

\* s.startswith(lit, i-1)
StartsAt(s, i, lit) ==
    /\ i >= 1
    /\ i + Len(lit) - 1 <= Len(s)
    /\ SubSeq(s, i, i + Len(lit) - 1) = lit

startswith(s, lit) == StartsAt(s, 1, lit)

\* k in t
Contains(t, k) == \E i \in 1..(Len(t) - Len(k) + 1) : SubSeq(t, i, i + Len(k) - 1) = k

\* t.find(k) + 1, 0 when k does not occur
Find(t, k) ==
    IF Contains(t, k)
    THEN CHOOSE i \in 1..(Len(t) - Len(k) + 1) :
            /\ SubSeq(t, i, i + Len(k) - 1) = k
            /\ \A j \in 1..(i - 1) : SubSeq(t, j, j + Len(k) - 1) # k
    ELSE 0

\* str.lower()
RECURSIVE lower(_)
lower(s) ==
    IF Len(s) = 0 THEN ""
    ELSE IF Len(s) = 1 THEN (IF s \in DOMAIN UpperCase THEN UpperCase[s] ELSE s)
    ELSE lower(SubSeq(s, 1, Len(s) \div 2)) \o lower(SubSeq(s, (Len(s) \div 2) + 1, Len(s)))

\* str.strip()
StripStart(s) ==
    IF \A k \in 1..Len(s) : IsSpace(At(s, k)) THEN Len(s) + 1
    ELSE CHOOSE i \in 1..Len(s) : ~IsSpace(At(s, i)) /\ \A k \in 1..(i - 1) : IsSpace(At(s, k))

StripEnd(s) ==
    IF \A k \in 1..Len(s) : IsSpace(At(s, k)) THEN 0
    ELSE CHOOSE i \in 1..Len(s) : ~IsSpace(At(s, i)) /\ \A k \in (i + 1)..Len(s) : IsSpace(At(s, k))

strip(s) == IF StripEnd(s) = 0 THEN "" ELSE SubSeq(s, StripStart(s), StripEnd(s))

\* the index after the longest run of characters of chars that starts at i
RunEnd(s, i, chars) ==
    CHOOSE j \in i..(Len(s) + 1) :
        /\ \A k \in i..(j - 1) : At(s, k) \in chars
        /\ (j = Len(s) + 1 \/ At(s, j) \notin chars)

\* int(s) for a string of digits
RECURSIVE int(_)
int(s) ==
    IF Len(s) = 0 THEN 0
    ELSE 10 * int(SubSeq(s, 1, Len(s) - 1)) + DigitValue[At(s, Len(s))]

\* separator.join(parts)
RECURSIVE join(_, _)
join(sep, parts) ==
    IF Len(parts) = 0 THEN ""
    ELSE IF Len(parts) = 1 THEN parts[1]
    ELSE parts[1] \o sep \o join(sep, Tail(parts))

\* "x" * n
RECURSIVE Fill(_)
Fill(n) ==
    IF n <= 0 THEN ""
    ELSE IF n = 1 THEN "x"
    ELSE Fill(n \div 2) \o Fill(n - (n \div 2))

(***************************************************************************)
(* re: a pattern alternative is a sequence of atoms, each a literal, WS     *)
(* (optional white space) or NotPlus (a negative lookahead for a plus).    *)
(***************************************************************************)
WS == "\\s*"
NotPlus == "(?!\\+)"

RECURSIVE MatchAt(_, _, _)
MatchAt(s, i, atoms) ==
    IF Len(atoms) = 0 THEN TRUE
    ELSE IF Head(atoms) = WS
    THEN \E j \in i..(Len(s) + 1) :
            /\ \A k \in i..(j - 1) : IsSpace(At(s, k))
            /\ MatchAt(s, j, Tail(atoms))
    ELSE IF Head(atoms) = NotPlus
    THEN At(s, i) # "+" /\ MatchAt(s, i, Tail(atoms))
    ELSE StartsAt(s, i, Head(atoms)) /\ MatchAt(s, i + Len(Head(atoms)), Tail(atoms))

\* re.search(a1|a2|..., s) is not None
Search(alts, s) ==
    \E n \in 1..Len(alts) : \E i \in 1..(Len(s) + 1) : MatchAt(s, i, alts[n])

(***************************************************************************)
(* dict                                                                    *)
(***************************************************************************)
EmptyDict == << >>

\* d[k] = v
DictSet(d, k, v) == [x \in (DOMAIN d) \cup {k} |-> IF x = k THEN v ELSE d[x]]

\* d.update(e)
DictUpdate(d, e) ==
    [x \in (DOMAIN d) \cup (DOMAIN e) |-> IF x \in DOMAIN e THEN e[x] ELSE d[x]]

\* del d[k]
DictDel(d, k) == [x \in (DOMAIN d) \ {k} |-> d[x]]

Str(s) == [str |-> s]
Num(n) == [int |-> n]

(***************************************************************************)
(* Attribute names written by the extractors                               *)
(***************************************************************************)
K_SwitchingCapacity == "{4ea4}{6362}{5bb9}{91cf}"          \* 交换容量
K_Url == "{94fe}{63a5}{5730}{5740}"                        \* 链接地址
K_ModelDescription == "{578b}{53f7}{63cf}{8ff0}"           \* 型号描述
K_SeriesFeatures == "{7cfb}{5217}{7279}{6027}"             \* 系列特性
K_1G == "1G{7aef}{53e3}{6570}"                             \* 1G端口数
K_1000BaseT == "1000Base-T{7aef}{53e3}{6570}"              \* 1000Base-T端口数
K_PoePower == "POE{603b}{529f}{7387}"                      \* POE总功率
K_PoePowerPrefix == "POE{603b}{529f}{7387}_"               \* POE总功率_
K_PoePowerAC == "POE{603b}{529f}{7387}_AC"                 \* POE总功率_AC
K_PoePowerDC == "POE{603b}{529f}{7387}_DC"                 \* POE总功率_DC
K_SwitchType == "{4ea4}{6362}{673a}{7c7b}{578b}"           \* 交换机类型
V_Chassis == "{6846}{5f0f}{4ea4}{6362}{673a}"              \* 框式交换机
V_Box == "{76d2}{5f0f}{4ea4}{6362}{673a}"                  \* 盒式交换机
K_SoftwareFeatures == "{8f6f}{4ef6}{7279}{6027}"           \* 软件特性
K_Protocols == "{652f}{6301}{534f}{8bae}"                  \* 支持协议
K_MacTable == "MAC{5730}{5740}{8868}"                      \* MAC地址表
K_VlanTable == "VLAN{8868}{9879}"                          \* VLAN表项
K_RouteTable == "{8def}{7531}{8868}{9879}"                 \* 路由表项
K_ArpTable == "ARP{8868}{9879}"                            \* ARP表项
K_AclRules == "ACL{89c4}{5219}{6570}"                      \* ACL规则数
K_MulticastTable == "{7ec4}{64ad}{8868}{9879}"             \* 组播表项
K_SFP28 == "SFP28{7aef}{53e3}{6570}"                       \* SFP28端口数
K_SFPPlus == "SFP+{7aef}{53e3}{6570}"                      \* SFP+端口数
K_QSFP28 == "QSFP28{7aef}{53e3}{6570}"                     \* QSFP28端口数
K_QSFPPlus == "QSFP+{7aef}{53e3}{6570}"                    \* QSFP+端口数
K_SFP == "SFP{7aef}{53e3}{6570}"                           \* SFP端口数
K_MultiGiga == "MultiGiga{7aef}{53e3}{6570}"               \* MultiGiga端口数
K_2_5G == "2.5G{7aef}{53e3}{6570}"                         \* 2.5G端口数
K_5G == "5G{7aef}{53e3}{6570}"                             \* 5G端口数
K_10G == "10G{7aef}{53e3}{6570}"                           \* 10G端口数
K_Combo == "Combo{7aef}{53e3}{6570}"                       \* Combo端口数
K_PoeAf == "POE{7aef}{53e3}{6570}(802.3af)"                \* POE端口数(802.3af)
K_PoeAt == "POE+{7aef}{53e3}{6570}(802.3at)"               \* POE+端口数(802.3at)
K_Poe60 == "POE++{7aef}{53e3}{6570}(60W)"                  \* POE++端口数(60W)
K_Poe90 == "POE++{7aef}{53e3}{6570}(90W)"                  \* POE++端口数(90W)
K_ConsolePort == "Console{53e3}"                           \* Console口

(***************************************************************************)
(* DirectTableExtractor: table type, skipped and normalized parameters     *)
(***************************************************************************)
\* self.skip_patterns, each a literal searched in the lower-cased name
skip_patterns ==
    <<"removable", "power supply model", "psu model", "board support",
      "card support", "{662f}{5426}{652f}{6301}",
      "{7535}{6e90}{6a21}{5757}{578b}{53f7}", "{53ef}{79fb}{9664}">>

should_skip_param(param) ==
    \E n \in 1..Len(skip_patterns) : Contains(lower(param), skip_patterns[n])

AnyIn(text, kws) == \E k \in kws : Contains(text, k)

\* a variant of DetectTableType that looks for the POE keywords first
DetectTableTypePoeFirst(text_lower) ==
    IF AnyIn(text_lower, {"poe power capacity", "total poe power", "802.3af", "802.3at"})
       /\ Contains(text_lower, "quantity")
    THEN "poe"
    ELSE IF Contains(text_lower, "organization")
            /\ AnyIn(text_lower, {"ieee", "rfc", "standard"})
    THEN "protocols"
    ELSE "hardware"

\* the checks of _detect_table_type on the lower-cased text, in their order
DetectTableType(text_lower) ==
    IF Contains(text_lower, "organization")
       /\ AnyIn(text_lower, {"ieee", "rfc", "standard"})
    THEN "protocols"
    ELSE IF Contains(text_lower, "standards and protocols")
    THEN "protocols"
    ELSE IF AnyIn(text_lower, {"poe power capacity", "total poe power", "802.3af", "802.3at"})
            /\ Contains(text_lower, "quantity")
    THEN "poe"
    ELSE IF AnyIn(text_lower, {"entries", "mac address entries", "vlan table",
                               "routing entries", "arp entries"})
    THEN "performance"
    ELSE IF AnyIn(text_lower, {"vlan", "routing protocol", "security feature",
                               "layer 2", "layer 3"})
    THEN "software"
    ELSE IF AnyIn(text_lower, {"ieee", "rfc", "standard", "compliance"})
    THEN "protocols"
    ELSE IF AnyIn(text_lower, {"mac address", "forwarding rate", "routing table"})
    THEN "performance"
    ELSE "hardware"

detect_table_type(text) == DetectTableType(lower(text))

\* the mappings dict of _normalize_param_name, in its order
mappings == <<
    \* r'power\s*consumption|功耗|功率': '功耗'
    [alts |-> <<<<"power", WS, "consumption">>, <<"{529f}{8017}">>, <<"{529f}{7387}">>>>,
     target |-> "{529f}{8017}"],
    \* r'input\s*voltage|额定电压|输入电压': '输入电压'
    [alts |-> <<<<"input", WS, "voltage">>, <<"{989d}{5b9a}{7535}{538b}">>, <<"{8f93}{5165}{7535}{538b}">>>>,
     target |-> "{8f93}{5165}{7535}{538b}"],
    \* r'switching\s*capacity|交换容量': '交换容量'
    [alts |-> <<<<"switching", WS, "capacity">>, <<"{4ea4}{6362}{5bb9}{91cf}">>>>,
     target |-> "{4ea4}{6362}{5bb9}{91cf}"],
    \* r'forwarding\s*(rate|capacity)|包转发率|转发容量': '包转发率'
    [alts |-> <<<<"forwarding", WS, "rate">>, <<"forwarding", WS, "capacity">>, <<"{5305}{8f6c}{53d1}{7387}">>, <<"{8f6c}{53d1}{5bb9}{91cf}">>>>,
     target |-> "{5305}{8f6c}{53d1}{7387}"],
    \* r'mac\s*address|mac地址|mac表': 'MAC地址表'
    [alts |-> <<<<"mac", WS, "address">>, <<"mac{5730}{5740}">>, <<"mac{8868}">>>>,
     target |-> "MAC{5730}{5740}{8868}"],
    \* r'dimension|尺寸|外形尺寸': '尺寸'
    [alts |-> <<<<"dimension">>, <<"{5c3a}{5bf8}">>, <<"{5916}{5f62}{5c3a}{5bf8}">>>>,
     target |-> "{5c3a}{5bf8}"],
    \* r'weight|重量': '重量'
    [alts |-> <<<<"weight">>, <<"{91cd}{91cf}">>>>,
     target |-> "{91cd}{91cf}"],
    \* r'temperature|工作温度': '工作温度'
    [alts |-> <<<<"temperature">>, <<"{5de5}{4f5c}{6e29}{5ea6}">>>>,
     target |-> "{5de5}{4f5c}{6e29}{5ea6}"],
    \* r'humidity|工作湿度|湿度': '工作湿度'
    [alts |-> <<<<"humidity">>, <<"{5de5}{4f5c}{6e7f}{5ea6}">>, <<"{6e7f}{5ea6}">>>>,
     target |-> "{5de5}{4f5c}{6e7f}{5ea6}"],
    \* r'mtbf|平均无故障': 'MTBF'
    [alts |-> <<<<"mtbf">>, <<"{5e73}{5747}{65e0}{6545}{969c}">>>>,
     target |-> "MTBF"],
    \* r'mttr|平均修复': 'MTTR'
    [alts |-> <<<<"mttr">>, <<"{5e73}{5747}{4fee}{590d}">>>>,
     target |-> "MTTR"],
    \* r'power\s*supply\s*slots?|电源槽位|电源数量|电源槽': '电源槽位数'
    [alts |-> <<<<"power", WS, "supply", WS, "slots">>, <<"power", WS, "supply", WS, "slot">>, <<"{7535}{6e90}{69fd}{4f4d}">>, <<"{7535}{6e90}{6570}{91cf}">>, <<"{7535}{6e90}{69fd}">>>>,
     target |-> "{7535}{6e90}{69fd}{4f4d}{6570}"],
    \* r'fan\s*(num|number|quantity)|风扇槽位|风扇数量|风扇槽|fan num': '风扇数量'
    [alts |-> <<<<"fan", WS, "num">>, <<"fan", WS, "number">>, <<"fan", WS, "quantity">>, <<"{98ce}{6247}{69fd}{4f4d}">>, <<"{98ce}{6247}{6570}{91cf}">>, <<"{98ce}{6247}{69fd}">>, <<"fan num">>>>,
     target |-> "{98ce}{6247}{6570}{91cf}"],
    \* r'console|console口|串口|console port': 'Console口'
    [alts |-> <<<<"console">>, <<"console{53e3}">>, <<"{4e32}{53e3}">>, <<"console port">>>>,
     target |-> "Console{53e3}"],
    \* r'usb|usb口|usb port': 'USB口'
    [alts |-> <<<<"usb">>, <<"usb{53e3}">>, <<"usb port">>>>,
     target |-> "USB{53e3}"],
    \* r'management|管理口|网管口|management port': '管理网口'
    [alts |-> <<<<"management">>, <<"{7ba1}{7406}{53e3}">>, <<"{7f51}{7ba1}{53e3}">>, <<"management port">>>>,
     target |-> "{7ba1}{7406}{7f51}{53e3}"],
    \* r'flash|flash内存': 'Flash'
    [alts |-> <<<<"flash">>, <<"flash{5185}{5b58}">>>>,
     target |-> "Flash"],
    \* r'sdram|内存|sdram': 'SDRAM'
    [alts |-> <<<<"sdram">>, <<"{5185}{5b58}">>, <<"sdram">>>>,
     target |-> "SDRAM"],
    \* r'cpu|处理器': 'CPU'
    [alts |-> <<<<"cpu">>, <<"{5904}{7406}{5668}">>>>,
     target |-> "CPU"],
    \* r'latency|时延|延迟|latency': '延迟'
    [alts |-> <<<<"latency">>, <<"{65f6}{5ef6}">>, <<"{5ef6}{8fdf}">>, <<"latency">>>>,
     target |-> "{5ef6}{8fdf}"],
    \* r'packet\s*buffer|包缓存|报文缓存': '包缓存'
    [alts |-> <<<<"packet", WS, "buffer">>, <<"{5305}{7f13}{5b58}">>, <<"{62a5}{6587}{7f13}{5b58}">>>>,
     target |-> "{5305}{7f13}{5b58}"],
    \* r'jumbo\s*frame|巨帧': '巨帧'
    [alts |-> <<<<"jumbo", WS, "frame">>, <<"{5de8}{5e27}">>>>,
     target |-> "{5de8}{5e27}"],
    \* r'buffer|缓存|缓冲区': '缓存'
    [alts |-> <<<<"buffer">>, <<"{7f13}{5b58}">>, <<"{7f13}{51b2}{533a}">>>>,
     target |-> "{7f13}{5b58}"],
    \* r'base-t\s*port|电口|以太网口': '电口数量'
    [alts |-> <<<<"base-t", WS, "port">>, <<"{7535}{53e3}">>, <<"{4ee5}{592a}{7f51}{53e3}">>>>,
     target |-> "{7535}{53e3}{6570}{91cf}"],
    \* r'sfp\+\s*port|sfp\+\s*光口': 'SFP+端口数'
    [alts |-> <<<<"sfp+", WS, "port">>, <<"sfp+", WS, "{5149}{53e3}">>>>,
     target |-> "SFP+{7aef}{53e3}{6570}"],
    \* r'sfp(?!\+)\s*port|sfp(?!\+)\s*光口': 'SFP端口数'
    [alts |-> <<<<"sfp", NotPlus, WS, "port">>, <<"sfp", NotPlus, WS, "{5149}{53e3}">>>>,
     target |-> "SFP{7aef}{53e3}{6570}"],
    \* r'sfp28\s*port|sfp28\s*光口': 'SFP28端口数'
    [alts |-> <<<<"sfp28", WS, "port">>, <<"sfp28", WS, "{5149}{53e3}">>>>,
     target |-> "SFP28{7aef}{53e3}{6570}"],
    \* r'qsfp\+\s*port|qsfp\+\s*光口': 'QSFP+端口数'
    [alts |-> <<<<"qsfp+", WS, "port">>, <<"qsfp+", WS, "{5149}{53e3}">>>>,
     target |-> "QSFP+{7aef}{53e3}{6570}"],
    \* r'qsfp(?!\+)\s*port|qsfp(?!\+)\s*光口': 'QSFP端口数'
    [alts |-> <<<<"qsfp", NotPlus, WS, "port">>, <<"qsfp", NotPlus, WS, "{5149}{53e3}">>>>,
     target |-> "QSFP{7aef}{53e3}{6570}"],
    \* r'qsfp28\s*port|qsfp28\s*光口': 'QSFP28端口数'
    [alts |-> <<<<"qsfp28", WS, "port">>, <<"qsfp28", WS, "{5149}{53e3}">>>>,
     target |-> "QSFP28{7aef}{53e3}{6570}"],
    \* r'multigiga|multi-giga|2\.5g|5g|多速率': 'MultiGiga端口数'
    [alts |-> <<<<"multigiga">>, <<"multi-giga">>, <<"2.5g">>, <<"5g">>, <<"{591a}{901f}{7387}">>>>,
     target |-> "MultiGiga{7aef}{53e3}{6570}"],
    \* r'maximum\s*stacking\s*bandwidth|堆叠带宽|最大堆叠带宽': '最大堆叠带宽'
    [alts |-> <<<<"maximum", WS, "stacking", WS, "bandwidth">>, <<"{5806}{53e0}{5e26}{5bbd}">>, <<"{6700}{5927}{5806}{53e0}{5e26}{5bbd}">>>>,
     target |-> "{6700}{5927}{5806}{53e0}{5e26}{5bbd}"],
    \* r'maximum\s*stacking\s*num|堆叠数量|最大堆叠数': '最大堆叠数'
    [alts |-> <<<<"maximum", WS, "stacking", WS, "num">>, <<"{5806}{53e0}{6570}{91cf}">>, <<"{6700}{5927}{5806}{53e0}{6570}">>>>,
     target |-> "{6700}{5927}{5806}{53e0}{6570}"]

>>

\* None, where the source returns None or a str: a string no input holds
NoneValue == "<None>"

\* the value of the first pattern of mappings found in the lower-cased name
FirstMapping(hits) ==
    IF hits = {} THEN NoneValue
    ELSE mappings[CHOOSE n \in hits : \A m \in hits : n <= m].target

NormalizeParamName(param_lower) ==
    FirstMapping({n \in 1..Len(mappings) : Search(mappings[n].alts, param_lower)})

normalize_param_name(param) == NormalizeParamName(lower(param))

(***************************************************************************)
(* DirectTableExtractor._is_port_description, _parse_port_description      *)
(***************************************************************************)
port_keywords ==
    {"sfp", "qsfp", "base-t", "ethernet", "port", "{5149}{53e3}", "{7535}{53e3}",
     "multigiga", "multi-giga"}

is_port_description(feature, value) == AnyIn(lower(feature), port_keywords)

\* re.match(r'(\d+)\s*(?:\([^)]*\))?', value_lower): the leading digits, "" when
\* the value does not start with a digit
LeadingDigits(value_lower) ==
    IF IsDigit(At(value_lower, 1))
    THEN SubSeq(value_lower, 1, RunEnd(value_lower, 1, Digits) - 1)
    ELSE ""

\* a variant of PrimaryPorts that tests "sfp+" and "sfp" one after the other,
\* not one or else the other
PrimaryPortsOfEachFamily(text, port_count) ==
    (IF Contains(text, "sfp+") \/ Contains(text, "sfp plus")
     THEN (K_SFPPlus :> Num(port_count)) ELSE EmptyDict)
    @@ (IF Contains(text, "sfp") THEN (K_SFP :> Num(port_count)) ELSE EmptyDict)

\* the port family of the primary count, and the rate attributes of a
\* multigiga description
PrimaryPorts(text, port_count) ==
    IF Contains(text, "sfp28") THEN (K_SFP28 :> Num(port_count))
    ELSE IF Contains(text, "sfp+") \/ Contains(text, "sfp plus")
    THEN (K_SFPPlus :> Num(port_count))
    ELSE IF Contains(text, "qsfp28") THEN (K_QSFP28 :> Num(port_count))
    ELSE IF Contains(text, "qsfp+") \/ Contains(text, "qsfp plus")
    THEN (K_QSFPPlus :> Num(port_count))
    ELSE IF Contains(text, "sfp") THEN (K_SFP :> Num(port_count))
    ELSE IF Contains(text, "multigiga") \/ Contains(text, "2.5g")
    THEN LET rates == {r \in {<<"1g", K_1G>>, <<"2.5g", K_2_5G>>, <<"5g", K_5G>>,
                              <<"10g", K_10G>>} : Contains(text, r[1])}
         IN  [k \in {K_MultiGiga} \cup {r[2] : r \in rates} |-> Num(port_count)]
    ELSE IF Contains(text, "base-t") \/ Contains(text, "ethernet")
            \/ Contains(text, "{7535}{53e3}")
    THEN (K_1000BaseT :> Num(port_count))
    ELSE EmptyDict

\* an optional character of chars at a: the index after it
Optional(text, a, chars) == IF At(text, a) \in chars THEN a + 1 ELSE a

\* (?:base-t\s*)? at c: the index after it
OptionalBaseT(text, c) ==
    IF StartsAt(text, c, "base-t") THEN RunEnd(text, c + 6, Spaces) ELSE c

\* \s*\*?\s*(?:base-t\s*)?combo\) at d, the index after the digits
ComboTail(text, d) ==
    StartsAt(text,
             OptionalBaseT(text, RunEnd(text, Optional(text, RunEnd(text, d, Spaces), {"*"}), Spaces)),
             "combo)")

\* r'\((\d+)\s*\*?\s*(?:base-t\s*)?combo\)' matched at i: the index after the
\* digits, 0 when there is no match at i
ComboAt(text, i) ==
    IF At(text, i) = "(" /\ IsDigit(At(text, i + 1))
       /\ ComboTail(text, RunEnd(text, i + 1, Digits))
    THEN RunEnd(text, i + 1, Digits)
    ELSE 0

\* the least element of a set of indices, 0 for the empty set
Leftmost(S) == IF S = {} THEN 0 ELSE CHOOSE x \in S : \A y \in S : x <= y

\* the combo count of the match at i, nothing when i = 0 (no match)
ComboCount(text, i) ==
    IF i = 0 THEN EmptyDict
    ELSE (K_Combo :> Num(int(SubSeq(text, i + 1, ComboAt(text, i) - 1))))

ComboPorts(text) ==
    ComboCount(text, Leftmost({i \in 1..Len(text) : ComboAt(text, i) # 0}))

\* r'(\d+)\s*[\*x]?\s*<rate>' matched at i with k digits in the group
RateAt(text, i, k, rate) ==
    /\ \A j \in i..(i + k - 1) : IsDigit(At(text, j))
    /\ StartsAt(text,
                RunEnd(text, Optional(text, RunEnd(text, i + k, Spaces), {"*", "x"}), Spaces),
                rate)

\* the longest group of the matches that start at i
LongestGroup(text, i, rate) ==
    CHOOSE k \in 1..Len(text) :
        /\ RateAt(text, i, k, rate)
        /\ \A m \in (k + 1)..Len(text) : ~RateAt(text, i, m, rate)

RateCount(text, i, rate, key) ==
    IF i = 0 THEN EmptyDict
    ELSE (key :> Num(int(SubSeq(text, i, i + LongestGroup(text, i, rate) - 1))))

\* re.search: the leftmost start, and there the longest group
RatePorts(text, rate, key) ==
    RateCount(text,
              Leftmost({i \in 1..Len(text) : \E k \in 1..Len(text) : RateAt(text, i, k, rate)}),
              rate, key)

\* the primary count of the value, when the value starts with digits
MainPorts(text, digits) ==
    IF digits # "" THEN PrimaryPorts(text, int(digits)) ELSE EmptyDict

\* the attributes of a description, text = (value + ' ' + feature).lower(), in
\* the order the source writes them
PortAttributes(text, value_lower) ==
    DictUpdate(DictUpdate(DictUpdate(DictUpdate(
        MainPorts(text, LeadingDigits(value_lower)),
        ComboPorts(text)),
        RatePorts(text, "2.5g", K_2_5G)),
        RatePorts(text, "5g", K_5G)),
        RatePorts(text, "10g", K_10G))

parse_port_description(feature, value) ==
    IF value = "" \/ strip(value) \in {"/", "-", ""} THEN EmptyDict
    ELSE PortAttributes(lower(value \o " " \o feature), lower(value))

(***************************************************************************)
(* DirectTableExtractor._parse_poe_ports                                   *)
(***************************************************************************)
\* (\d+)(?!\d) at c: the digits, "" when there is none
DigitsAt(text, c) == SubSeq(text, c, RunEnd(text, c, Digits) - 1)

\* [:\s]+(\d+) at b: the digits, "" when the separators or the digits miss
CountAfter(text, b) ==
    IF RunEnd(text, b, ColonOrSpace) > b THEN DigitsAt(text, RunEnd(text, b, ColonOrSpace)) ELSE ""

\* \(<cls>\)[:\s]+(\d+) at a
ClassThenCount(text, a, cls) ==
    IF StartsAt(text, a, "(" \o cls \o ")") THEN CountAfter(text, a + Len(cls) + 2) ELSE ""

\* r'<watt>\s*\(<cls>\)[:\s]+(\d+)(?!\d)' matched at i: the captured digits,
\* "" when there is no match at i
ClassFirstAt(text, i, watt, cls) ==
    IF StartsAt(text, i, watt)
    THEN ClassThenCount(text, RunEnd(text, i + Len(watt), Spaces), cls)
    ELSE ""

\* (\d+)\s*\(<cls>\) at b, with the digits ending before c
CountThenClass(text, b, c, cls) ==
    IF c > b /\ StartsAt(text, RunEnd(text, c, Spaces), "(" \o cls \o ")")
    THEN SubSeq(text, b, c - 1) ELSE ""

\* [:\s]+(\d+)\s*\(<cls>\) at a, with the separators ending before b
SeparatorsThenCount(text, a, b, cls) ==
    IF b > a THEN CountThenClass(text, b, RunEnd(text, b, Digits), cls) ELSE ""

\* r'<watt>[:\s]+(\d+)\s*\(<cls>\)' matched at i
ValueFirstAt(text, i, watt, cls) ==
    IF StartsAt(text, i, watt)
    THEN SeparatorsThenCount(text, i + Len(watt), RunEnd(text, i + Len(watt), ColonOrSpace), cls)
    ELSE ""

\* re.search(pattern, text): the group of the leftmost match, "" without match
SearchClassFirst(text, watt, cls) ==
    ClassFirstAt(text, Leftmost({i \in 1..Len(text) : ClassFirstAt(text, i, watt, cls) # ""}),
                 watt, cls)

SearchValueFirst(text, watt, cls) ==
    ValueFirstAt(text, Leftmost({i \in 1..Len(text) : ValueFirstAt(text, i, watt, cls) # ""}),
                 watt, cls)

\* a variant of InPoeRange that has no upper limit
InPoeRangeFromOne(val) == 1 <= val

\* the sane range of a port count
InPoeRange(val) == 1 <= val /\ val <= 48

\* one "for pattern in <class>_patterns" loop, m1 and m2 the captures of the
\* two patterns: the first that matched with a count in range writes the
\* attribute and ends the loop
PoeCount(key, m1, m2) ==
    IF m1 # "" /\ InPoeRange(int(m1)) THEN (key :> Num(int(m1)))
    ELSE IF m2 # "" /\ InPoeRange(int(m2)) THEN (key :> Num(int(m2)))
    ELSE EmptyDict

PoeClass(text, watt, cls, key) ==
    PoeCount(key, SearchClassFirst(text, watt, cls), SearchValueFirst(text, watt, cls))

parse_poe_ports(text) ==
    PoeClass(text, "15.4W", "802.3af", K_PoeAf)
    @@ PoeClass(text, "30W", "802.3at", K_PoeAt)
    @@ PoeClass(text, "60W", "802.3bt", K_Poe60)
    @@ PoeClass(text, "90W", "802.3bt", K_Poe90)

(***************************************************************************)
(* An HTML table, as BeautifulSoup hands it to the extractors.             *)
(*   layout  "thead_tbody": the first tr in a thead, the others in a tbody *)
(*           "thead":       the first tr in a thead, the others loose      *)
(*           "tbody":       every tr in one tbody                          *)
(*           "plain":       neither thead nor tbody                        *)
(*   caption the text of the caption element; heading: it is an h3         *)
(*   rows    the tr elements in document order, each a sequence of cells    *)
(*           [tag, text, colspan]; text is the stripped text of the cell.   *)
(* A cell that a rowspan of an earlier row covers is simply absent from     *)
(* its tr, as in HTML.                                                     *)
(***************************************************************************)
Cell(text) == [tag |-> "td", text |-> text, colspan |-> 1]
Th(text) == [tag |-> "th", text |-> text, colspan |-> 1]
SpanCell(text, n) == [tag |-> "td", text |-> text, colspan |-> n]

RECURSIVE ConcatAll(_)
ConcatAll(parts) ==
    IF Len(parts) = 0 THEN "" ELSE Head(parts) \o ConcatAll(Tail(parts))

RowTexts(row) == [i \in 1..Len(row) |-> row[i].text]

\* table.get_text(strip=True): the stripped text nodes, concatenated
TableText(table) ==
    table.caption \o ConcatAll([r \in 1..Len(table.rows) |-> ConcatAll(RowTexts(table.rows[r]))])

\* dict.get(key, '')
Get(d, k) == IF k \in DOMAIN d THEN d[k] ELSE ""

(***************************************************************************)
(* An insertion-ordered dict of dicts (the result of an extractor,         *)
(* all_data, series_data): its keys in insertion order and their values.   *)
(***************************************************************************)
ODEmpty == [keys |-> << >>, val |-> << >>]
ODHas(d, k) == k \in DOMAIN d.val
\* d[k] = v
ODPut(d, k, v) ==
    [keys |-> IF ODHas(d, k) THEN d.keys ELSE Append(d.keys, k),
     val |-> DictSet(d.val, k, v)]
\* d.setdefault(k, {})
ODInit(d, k) == IF ODHas(d, k) THEN d ELSE ODPut(d, k, EmptyDict)
\* d[k].update(e)
ODUpdate(d, k, e) == ODPut(d, k, DictUpdate(d.val[k], e))

(***************************************************************************)
(* DirectTableExtractor._parse_table_structure                             *)
(***************************************************************************)
HasThead(table) == table.layout \in {"thead_tbody", "thead"}
HasTbody(table) == table.layout \in {"thead_tbody", "tbody"}

\* the cells one td/th writes: the headers at its index and at the colspan - 1
\* indices after it
CellColumns(headers, i, colspan) ==
    {headers[i + j] : j \in {x \in 0..(colspan - 1) : i + x <= Len(headers)}}

\* row_data[headers[i + j]] = value for the columns cols of one cell
RowDataWith(row_data, cols, value) ==
    [h \in (DOMAIN row_data) \cup cols |-> IF h \in cols THEN value ELSE row_data[h]]

\* for i, cell in enumerate(cells): ... row_data[headers[i + j]] = value
RECURSIVE RowDataFrom(_, _, _, _)
RowDataFrom(headers, cells, i, row_data) ==
    IF i > Len(cells) THEN row_data
    ELSE IF i > Len(headers) THEN RowDataFrom(headers, cells, i + 1, row_data)
    ELSE RowDataFrom(headers, cells, i + 1,
                     RowDataWith(row_data, CellColumns(headers, i, cells[i].colspan),
                                 cells[i].text))

RowData(headers, cells) == RowDataFrom(headers, cells, 1, EmptyDict)

\* a one-cell header row that names a feature or entries table
ImplicitHeaders(headers) ==
    IF Len(headers) = 1 /\ AnyIn(lower(headers[1]), {"feature", "entries"})
    THEN <<"Feature", "Description">>
    ELSE headers

\* tbody.find_all('tr') when there is a tbody, else table.find_all('tr')[1:]
DataRows(table) ==
    IF table.layout = "tbody" THEN table.rows
    ELSE IF Len(table.rows) = 0 THEN << >>
    ELSE Tail(table.rows)

\* "if row_data: rows.append(row_data)" over the data rows
ParsedRows(headers, data_rows) ==
    [headers |-> headers,
     rows |-> SelectSeq([r \in 1..Len(data_rows) |-> RowData(headers, data_rows[r])],
                        LAMBDA row_data : DOMAIN row_data # {})]

parse_table_structure(table) ==
    IF Len(table.rows) = 0 THEN [headers |-> << >>, rows |-> << >>]
    ELSE ParsedRows(ImplicitHeaders(RowTexts(table.rows[1])), DataRows(table))

(***************************************************************************)
(* DirectTableExtractor: the extractors                                    *)
(***************************************************************************)
\* re.search(r'S\d+[\w\-]+', h): an S, a digit and one more character of
\* [\w\-] (the digits after the first may be matched by either class)
IsModelHeader(h) ==
    \E i \in 1..Len(h) : At(h, i) = "S" /\ IsDigit(At(h, i + 1)) /\ At(h, i + 2) \in WordDash

is_multi_model_table(headers) == \E n \in 1..Len(headers) : IsModelHeader(headers[n])

\* a variant of MultiModelCell that writes a value under the feature name of
\* the table, not under its canonical name
MultiModelCellRaw(result, model, feature, norm_feature, value) ==
    IF value # "" /\ value # "-"
    THEN IF is_port_description(feature, value)
         THEN ODUpdate(result, model, parse_port_description(feature, value))
         ELSE ODUpdate(result, model, (feature :> Str(value)))
    ELSE result

\* one cell of a model column
MultiModelCell(result, model, feature, norm_feature, value) ==
    IF value # "" /\ value # "-"
    THEN IF is_port_description(feature, value)
         THEN ODUpdate(result, model, parse_port_description(feature, value))
         ELSE ODUpdate(result, model, (norm_feature :> Str(value)))
    ELSE result

\* one row of _extract_multi_model_table, for the model columns from n on
RECURSIVE MultiModelCells(_, _, _, _, _, _)
MultiModelCells(result, row, feature, norm_feature, model_cols, n) ==
    IF n > Len(model_cols) THEN result
    ELSE MultiModelCells(
            MultiModelCell(result, model_cols[n], feature, norm_feature, Get(row, model_cols[n])),
            row, feature, norm_feature, model_cols, n + 1)

MultiModelFeature(result, row, feature, norm_feature, model_cols) ==
    IF feature = "" THEN result
    ELSE IF should_skip_param(feature) THEN result
    ELSE IF norm_feature = NoneValue THEN result
    ELSE MultiModelCells(result, row, feature, norm_feature, model_cols, 1)

MultiModelRow(result, row, feature_col, model_cols) ==
    MultiModelFeature(result, row, Get(row, feature_col),
                      normalize_param_name(Get(row, feature_col)), model_cols)

\* for row in rows, from row n on
RECURSIVE MultiModelRows(_, _, _, _, _)
MultiModelRows(result, rows, n, feature_col, model_cols) ==
    IF n > Len(rows) THEN result
    ELSE MultiModelRows(MultiModelRow(result, rows[n], feature_col, model_cols),
                        rows, n + 1, feature_col, model_cols)

\* result = {model: {} for model in model_cols}
RECURSIVE ODInitAll(_, _, _)
ODInitAll(d, keys, n) ==
    IF n > Len(keys) THEN d ELSE ODInitAll(ODPut(d, keys[n], EmptyDict), keys, n + 1)

ModelColumns(headers) == SelectSeq(Tail(headers), IsModelHeader)

extract_multi_model_table(headers, rows) ==
    MultiModelRows(ODInitAll(ODEmpty, ModelColumns(headers), 1), rows, 1,
                   headers[1], ModelColumns(headers))

\* the header of the last index of hits, None when there is none
LastOf(headers, hits) ==
    IF hits = {} THEN NoneValue
    ELSE headers[CHOOSE n \in hits : \A m \in hits : n >= m]

IsPowerHeader(h) == Contains(lower(h), "power") /\ Contains(lower(h), "capacity")
IsPortsHeader(h) ==
    ~IsPowerHeader(h) /\ Contains(lower(h), "port") /\ Contains(lower(h), "quantity")

\* "for h in headers: if ... power_col = h elif ... ports_col = h": the last
\* header of each kind
PowerColumn(headers) == LastOf(headers, {n \in 1..Len(headers) : IsPowerHeader(headers[n])})
PortsColumn(headers) == LastOf(headers, {n \in 1..Len(headers) : IsPortsHeader(headers[n])})

\* power.split(':')[0] and power.split(':')[1]
SplitColon0(s) == IF Find(s, ":") = 0 THEN s ELSE SubSeq(s, 1, Find(s, ":") - 1)
SplitColon1(s) == SplitColon0(From(s, Find(s, ":") + 1))

\* the power cell of one POE row
PoePower(power) ==
    IF Contains(power, "AC:") \/ Contains(power, "DC:")
    THEN ((K_PoePowerPrefix \o strip(SplitColon0(power))) :> Str(strip(SplitColon1(power))))
    ELSE (K_PoePower :> Str(power))

\* a variant of PoeModel without last_model: a row has the model of its own
\* cell
PoeModelOfOwnCell(own, last_model) == own

\* the row's model: its own cell, or last_model for a cell left empty
PoeModel(own, last_model) ==
    IF own = "" /\ last_model # NoneValue /\ last_model # "" THEN last_model ELSE own

PoeWithPower(result, row, model, power_col) ==
    IF power_col # NoneValue /\ power_col \in DOMAIN row
    THEN ODUpdate(result, model, PoePower(row[power_col])) ELSE result

PoeWithPorts(result, row, model, ports_col) ==
    IF ports_col # NoneValue /\ ports_col \in DOMAIN row
    THEN ODUpdate(result, model, parse_poe_ports(row[ports_col])) ELSE result

PoeEntry(acc, row, own, model, power_col, ports_col) ==
    IF model = "" THEN acc
    ELSE [result |-> PoeWithPorts(PoeWithPower(ODInit(acc.result, model), row, model, power_col),
                                  row, model, ports_col),
          last_model |-> IF own # "" THEN own ELSE acc.last_model]

PoeOwn(acc, row, own, power_col, ports_col) ==
    PoeEntry(acc, row, own, PoeModel(own, acc.last_model), power_col, ports_col)

\* one row of _extract_poe_table; the accumulator is the result and last_model
PoeRow(acc, row, model_col, power_col, ports_col) ==
    PoeOwn(acc, row, strip(Get(row, model_col)), power_col, ports_col)

RECURSIVE PoeRows(_, _, _, _, _, _)
PoeRows(acc, rows, n, model_col, power_col, ports_col) ==
    IF n > Len(rows) THEN acc
    ELSE PoeRows(PoeRow(acc, rows[n], model_col, power_col, ports_col),
                 rows, n + 1, model_col, power_col, ports_col)

extract_poe_table(headers, rows) ==
    PoeRows([result |-> ODEmpty, last_model |-> NoneValue], rows, 1,
            headers[1], PowerColumn(headers), PortsColumn(headers)).result

GenericCell(result, key, norm_key, value) ==
    IF key # "" /\ ~should_skip_param(key) /\ norm_key # NoneValue
    THEN ODUpdate(result, "generic", (norm_key :> Str(value)))
    ELSE result

GenericRow(result, row, headers) ==
    IF Len(headers) >= 2
    THEN GenericCell(result, Get(row, headers[1]), normalize_param_name(Get(row, headers[1])),
                     Get(row, headers[2]))
    ELSE result

RECURSIVE GenericRows(_, _, _, _)
GenericRows(result, rows, n, headers) ==
    IF n > Len(rows) THEN result
    ELSE GenericRows(GenericRow(result, rows[n], headers), rows, n + 1, headers)

extract_generic_table(headers, rows) ==
    GenericRows(ODPut(ODEmpty, "generic", EmptyDict), rows, 1, headers)

\* features[:10]
FirstTen(features) == SubSeq(features, 1, IF Len(features) < 10 THEN Len(features) ELSE 10)

SoftwareFeature(features, feature, value) ==
    IF feature # "" /\ value # "" /\ ~should_skip_param(feature)
    THEN Append(features, feature \o ": " \o value)
    ELSE features

SoftwareRow(features, row, feature_col, value_col) ==
    SoftwareFeature(features, strip(Get(row, feature_col)), strip(Get(row, value_col)))

RECURSIVE SoftwareRows(_, _, _, _, _)
SoftwareRows(features, rows, n, feature_col, value_col) ==
    IF n > Len(rows) THEN features
    ELSE SoftwareRows(SoftwareRow(features, rows[n], feature_col, value_col),
                      rows, n + 1, feature_col, value_col)

SoftwareResult(features, value_col) ==
    IF Len(features) = 0 THEN ODEmpty
    ELSE ODPut(ODEmpty, IF Contains(value_col, "S") THEN value_col ELSE "Series",
               (K_SoftwareFeatures :> Str(join("; ", FirstTen(features)))))

extract_software_table(headers, rows) ==
    IF Len(headers) < 2 THEN ODEmpty
    ELSE SoftwareResult(SoftwareRows(<< >>, rows, 1, headers[1], headers[2]), headers[2])

\* the canonical performance attribute of a lower-cased feature name
PerformanceNameOf(f) ==
    IF Contains(f, "mac") THEN K_MacTable
    ELSE IF Contains(f, "vlan") /\ Contains(f, "table") THEN K_VlanTable
    ELSE IF Contains(f, "routing") \/ Contains(f, "route") THEN K_RouteTable
    ELSE IF Contains(f, "arp") THEN K_ArpTable
    ELSE IF Contains(f, "acl") THEN K_AclRules
    ELSE IF Contains(f, "mroute") \/ Contains(f, "multicast") THEN K_MulticastTable
    ELSE NoneValue

PerformanceName(feature) == PerformanceNameOf(lower(feature))

PerformanceEntry(perf_data, feature, name, value) ==
    IF feature = "" \/ value = "" THEN perf_data
    ELSE IF name = NoneValue THEN perf_data
    ELSE DictSet(perf_data, name, Str(value))

PerformanceFeature(perf_data, feature, value) ==
    PerformanceEntry(perf_data, feature, PerformanceName(feature), value)

PerformanceRow(perf_data, row, feature_col, value_col) ==
    PerformanceFeature(perf_data, strip(Get(row, feature_col)), strip(Get(row, value_col)))

RECURSIVE PerformanceRows(_, _, _, _, _)
PerformanceRows(perf_data, rows, n, feature_col, value_col) ==
    IF n > Len(rows) THEN perf_data
    ELSE PerformanceRows(PerformanceRow(perf_data, rows[n], feature_col, value_col),
                         rows, n + 1, feature_col, value_col)

\* s.replace(old, new)
RECURSIVE replace(_, _, _)
replace(s, old, new) ==
    IF Find(s, old) = 0 THEN s
    ELSE SubSeq(s, 1, Find(s, old) - 1) \o new
         \o replace(From(s, Find(s, old) + Len(old)), old, new)

\* a variant of PerformanceSeries that keeps the series name as the key
PerformanceSeriesUnchanged(model_series) == model_series

PerformanceSeries(model_series) ==
    IF Contains(model_series, "Switches")
    THEN replace(model_series, "Switches", "Performance")
    ELSE model_series \o " Performance"

PerformanceKey(value_col) ==
    PerformanceSeries(IF Contains(value_col, "S") THEN value_col ELSE "Performance")

PerformanceResult(perf_data, value_col) ==
    IF DOMAIN perf_data = {} THEN ODEmpty
    ELSE ODPut(ODEmpty, PerformanceKey(value_col), perf_data)

extract_performance_table(headers, rows) ==
    IF Len(headers) < 2 THEN ODEmpty
    ELSE PerformanceResult(PerformanceRows(EmptyDict, rows, 1, headers[1], headers[2]),
                           headers[2])

\* a variant of LooksLikeStandard that knows the prefix "802." only
LooksLikeIeeeStandard(org) == startswith(org, "802.")

LooksLikeStandard(org) == startswith(org, "802.") \/ startswith(org, "RFC")

\* protocols_list.append(f"{org}: {std}") when both are there
ProtocolsAppend(protocols_list, org, std) ==
    IF org # "" /\ std # "" THEN Append(protocols_list, org \o ": " \o std)
    ELSE protocols_list

\* the row with cells org0 and std0: a first cell that looks like a standard
\* is the standard of the organization before it
ProtocolsEntry(acc, org0, std0) ==
    IF org0 # "" /\ LooksLikeStandard(org0)
    THEN [protocols_list |-> ProtocolsAppend(acc.protocols_list, acc.last_org, org0),
          last_org |-> acc.last_org]
    ELSE [protocols_list |-> ProtocolsAppend(acc.protocols_list, org0, std0),
          last_org |-> IF org0 # "" THEN org0 ELSE acc.last_org]

\* one row of _extract_protocols_table; the accumulator is protocols_list and
\* last_org
ProtocolsRow(acc, row, headers) ==
    ProtocolsEntry(acc,
                   IF Len(headers) > 0 THEN strip(Get(row, headers[1])) ELSE "",
                   IF Len(headers) > 1 THEN strip(Get(row, headers[2])) ELSE "")

RECURSIVE ProtocolsRows(_, _, _, _)
ProtocolsRows(acc, rows, n, headers) ==
    IF n > Len(rows) THEN acc
    ELSE ProtocolsRows(ProtocolsRow(acc, rows[n], headers), rows, n + 1, headers)

ProtocolsResult(protocols_list) ==
    IF Len(protocols_list) = 0 THEN ODEmpty
    ELSE ODPut(ODEmpty, "Protocols", (K_Protocols :> Str(join("; ", protocols_list))))

extract_protocols_table(headers, rows) ==
    ProtocolsResult(ProtocolsRows([protocols_list |-> << >>, last_org |-> ""],
                                  rows, 1, headers).protocols_list)

(***************************************************************************)
(* DirectTableExtractor._process_table                                     *)
(***************************************************************************)
\* len(text) < 200: a small or navigation table
MinTableText == 200

\* the return value None
NoneTable == [none |-> TRUE, keys |-> << >>, val |-> << >>]

Dispatch(table_type, headers, rows) ==
    IF table_type = "poe" THEN extract_poe_table(headers, rows)
    ELSE IF table_type = "software" THEN extract_software_table(headers, rows)
    ELSE IF table_type = "performance" THEN extract_performance_table(headers, rows)
    ELSE IF table_type = "protocols" THEN extract_protocols_table(headers, rows)
    ELSE IF Len(headers) > 2 /\ is_multi_model_table(headers)
    THEN extract_multi_model_table(headers, rows)
    ELSE extract_generic_table(headers, rows)

\* "if not headers or not rows: return None", then the extractor of the type
ProcessParsed(table_type, parsed) ==
    IF Len(parsed.headers) = 0 \/ Len(parsed.rows) = 0 THEN NoneTable
    ELSE Dispatch(table_type, parsed.headers, parsed.rows)

\* a variant of ProcessText without the check of the length of the text
ProcessTextOfAnyLength(table, text) ==
    ProcessParsed(detect_table_type(text), parse_table_structure(table))

ProcessText(table, text) ==
    IF Len(text) < MinTableText THEN NoneTable
    ELSE ProcessParsed(detect_table_type(text), parse_table_structure(table))

process_table(table) == ProcessText(table, TableText(table))

(***************************************************************************)
(* A page: its URL, the texts of the h2 and h3 elements before the tables, *)
(* and the tables in document order.  Every element is on a line of its     *)
(* own, so soup.get_text() separates the text nodes by a line break.        *)
(***************************************************************************)
RECURSIVE Flatten(_)
Flatten(seqs) == IF Len(seqs) = 0 THEN << >> ELSE Head(seqs) \o Flatten(Tail(seqs))

NonEmpty(texts) == SelectSeq(texts, LAMBDA t : t # "")

TextsOf(cells) == [n \in 1..Len(cells) |-> cells[n].text]

TableCells(table) == Flatten([r \in 1..Len(table.rows) |-> table.rows[r]])
TableTextNodes(table) == NonEmpty(<<table.caption>> \o TextsOf(TableCells(table)))

PageTextNodes(page) ==
    NonEmpty(page.headings)
    \o Flatten([t \in 1..Len(page.tables) |-> TableTextNodes(page.tables[t])])

\* soup.get_text()
PageText(page) == join("\n", PageTextNodes(page))

\* soup.find_all(['h2', 'h3'])
PageHeadings(page) ==
    page.headings
    \o Flatten([t \in 1..Len(page.tables) |->
                  IF page.tables[t].heading THEN <<page.tables[t].caption>> ELSE << >>])

TdTexts(table) == TextsOf(SelectSeq(TableCells(table), LAMBDA c : c.tag = "td"))

\* soup.find_all(['div', 'p', 'td', 'span']): the td elements
PageTdTexts(page) == Flatten([t \in 1..Len(page.tables) |-> TdTexts(page.tables[t])])

(***************************************************************************)
(* DirectTableExtractor._extract_series_features                           *)
(***************************************************************************)
feature_skip_patterns ==
    {"hardware", "specification", "performance", "poe", "removable", "components",
     "matrix", "standards", "protocols", "resource", "related", "cloud", "ai",
     "intelligent", "security", "smb", "terminal", "industry", "solution", "service",
     "policy", "online", "training", "partner", "profile", "news", "contact", "blog",
     "learning", "certification", "exhibition",
     "{89c4}{683c}", "{6027}{80fd}", "{786c}{4ef6}", "{8f6f}{4ef6}", "{534f}{8bae}",
     "{6807}{51c6}", "{8d44}{6e90}", "{535a}{5ba2}", "{57f9}{8bad}", "{8ba4}{8bc1}",
     "{5c55}{89c8}", "{8054}{7cfb}"}

\* the tests on the lower-cased title
IsFeatureText(text_lower) ==
    /\ ~AnyIn(text_lower, feature_skip_patterns)
    /\ ~Contains(text_lower, "continued")
    /\ ~AnyIn(text_lower, {"global", "help", "become", "business"})

\* the tests on the stripped title
IsTitleText(text) == Len(text) <= 80 /\ Len(text) >= 5 /\ IsFeatureText(lower(text))

IsFeatureTitle(h) == IsTitleText(strip(h))

RECURSIVE Dedup(_, _)
Dedup(acc, texts) ==
    IF Len(texts) = 0 THEN acc
    ELSE Dedup(IF \E n \in 1..Len(acc) : acc[n] = Head(texts) THEN acc
               ELSE Append(acc, Head(texts)), Tail(texts))

JoinTitles(titles) == join("; ", Dedup(<< >>, [n \in 1..Len(titles) |-> strip(titles[n])]))

extract_series_features(page) == JoinTitles(SelectSeq(PageHeadings(page), IsFeatureTitle))

(***************************************************************************)
(* DirectTableExtractor._extract_model_descriptions                        *)
(***************************************************************************)
\* -[\w-]+ at a, b the index after the run of [\w-] from a + 1
ModelNameTail(text, a, b) == IF At(text, a) = "-" /\ b > a + 1 THEN b ELSE 0

ModelNameSuffix(text, a) == ModelNameTail(text, a, RunEnd(text, a + 1, WordDash))

\* r'S\d{4}[A-Z]*-[\w-]+' matched at i: the index after the match, 0 without
\* match; ignorecase is re.IGNORECASE
ModelNameAt(text, i, ignorecase) ==
    IF /\ (At(text, i) = "S" \/ (ignorecase /\ At(text, i) = "s"))
       /\ \A k \in 1..4 : IsDigit(At(text, i + k))
    THEN ModelNameSuffix(text, RunEnd(text, i + 5, IF ignorecase THEN Letters ELSE Uppers))
    ELSE 0

\* the lookahead (?=\n|S\d{4}|$) under re.IGNORECASE, at index e
DescriptionStops(text, e) ==
    \/ e > Len(text)
    \/ At(text, e) = "\n"
    \/ (At(text, e) \in {"S", "s"} /\ \A k \in 1..4 : IsDigit(At(text, e + k)))

\* the last index of a lazy group that starts at d
LazyEnd(text, d) ==
    CHOOSE e \in d..Len(text) :
        DescriptionStops(text, e + 1) /\ \A k \in d..(e - 1) : ~DescriptionStops(text, k + 1)

\* the alternative of (?:BASE-T|Ethernet|Ports|SFP) a lower-cased word starts
\* with: its length, 0 when none is
PortWord(word) ==
    IF startswith(word, "base-t") THEN 6
    ELSE IF startswith(word, "ethernet") THEN 8
    ELSE IF startswith(word, "ports") THEN 5
    ELSE IF startswith(word, "sfp") THEN 3
    ELSE 0

PortWordLen(text, i) ==
    PortWord(lower(SubSeq(text, i, IF i + 7 < Len(text) THEN i + 7 ELSE Len(text))))

NoMatch == [model |-> "", desc |-> "", end |-> 0]

\* the match of a pattern: the model at i..m-1, the description at from..e
Match(text, i, m, from, e) ==
    [model |-> SubSeq(text, i, m - 1), desc |-> SubSeq(text, from, e), end |-> e + 1]

\* [^;\n]+? from d up to e, the first index where the lookahead holds
PortsLazy(text, i, m, d, e) ==
    IF \E k \in d..e : At(text, k) = ";" THEN NoMatch ELSE Match(text, i, m, m + 1, e)

PortsDescription(text, i, m, d) ==
    IF d > Len(text) \/ At(text, d) \in {"\n", ";"} THEN NoMatch
    ELSE PortsLazy(text, i, m, d, LazyEnd(text, d))

PortsCount(text, i, m, r) ==
    IF r = m + 1 \/ r > Len(text) \/ PortWordLen(text, r) = 0 THEN NoMatch
    ELSE PortsDescription(text, i, m, r + PortWordLen(text, r))

PortsModel(text, i, m) ==
    IF m = 0 \/ At(text, m) # ":" THEN NoMatch
    ELSE PortsCount(text, i, m, RunEnd(text, m + 1, CountChars))

\* the first pattern of model_patterns, matched at i
PortsPatternAt(text, i) == PortsModel(text, i, ModelNameAt(text, i, TRUE))

ColonDescription(text, i, m, c, d) ==
    IF At(text, c) # ":" \/ d > Len(text) THEN NoMatch
    ELSE Match(text, i, m, d, LazyEnd(text, d))

ColonSeparator(text, i, m, c) == ColonDescription(text, i, m, c, RunEnd(text, c + 1, Spaces))

ColonModel(text, i, m) ==
    IF m = 0 THEN NoMatch ELSE ColonSeparator(text, i, m, RunEnd(text, m, Spaces))

\* the second pattern of model_patterns, matched at i
ColonPatternAt(text, i) == ColonModel(text, i, ModelNameAt(text, i, TRUE))

\* the pattern of model_patterns with index pattern, matched at i
PatternAt(pattern, text, i) ==
    IF pattern = 1 THEN PortsPatternAt(text, i) ELSE ColonPatternAt(text, i)

\* re.findall(pattern, text): the matches from left to right, none
\* overlapping; hits holds the indices where the pattern matches
RECURSIVE FindAllFrom(_, _, _, _)
FindAllFrom(pattern, text, hits, from) ==
    IF Leftmost({i \in hits : i >= from}) = 0 THEN << >>
    ELSE <<PatternAt(pattern, text, Leftmost({i \in hits : i >= from}))>>
         \o FindAllFrom(pattern, text, hits,
                        PatternAt(pattern, text, Leftmost({i \in hits : i >= from})).end)

FindAll(pattern, text) ==
    FindAllFrom(pattern, text,
                {i \in 1..Len(text) :
                    At(text, i) \in {"S", "s"} /\ PatternAt(pattern, text, i).end # 0}, 1)

\* desc[:200] + '...' when the description is longer than 200
Clip(desc) == IF Len(desc) > 200 THEN SubSeq(desc, 1, 200) \o "..." ELSE desc

LooksValid(desc) ==
    /\ Len(desc) > 10
    /\ (AnyIn(lower(desc), {"port", "base", "ethernet", "sfp"}) \/ Len(desc) < 100)

AddMatch(descriptions, model, desc) ==
    IF LooksValid(desc) THEN DictSet(descriptions, model, desc) ELSE descriptions

RECURSIVE AddMatches(_, _)
AddMatches(descriptions, matches) ==
    IF Len(matches) = 0 THEN descriptions
    ELSE AddMatches(AddMatch(descriptions, strip(Head(matches).model),
                             Clip(strip(Head(matches).desc))),
                    Tail(matches))

\* re.search(r'(S\d{4}[A-Z]*-[\w-]+)', text): the index of the leftmost match
ModelNameStart(text) == Leftmost({i \in 1..Len(text) : ModelNameAt(text, i, FALSE) # 0})

\* re.sub(r'^[\s:]+', '', desc)
DropSeparators(desc) == From(desc, RunEnd(desc, 1, ColonOrSpace))

ElementDescription(descriptions, model, desc) ==
    IF Len(desc) > 10 /\ Len(desc) < 200 /\ model \notin DOMAIN descriptions
    THEN DictSet(descriptions, model, desc)
    ELSE descriptions

\* the model name found at i..e-1 of an element's text, i = 0 without one
ElementModel(descriptions, text, i, e) ==
    IF i = 0 THEN descriptions
    ELSE ElementDescription(descriptions, SubSeq(text, i, e - 1),
                            DropSeparators(strip(From(text, e))))

ElementFrom(descriptions, text, i) ==
    ElementModel(descriptions, text, i, ModelNameAt(text, i, FALSE))

AddElement(descriptions, text) == ElementFrom(descriptions, text, ModelNameStart(text))

\* the loop over the elements
RECURSIVE AddElements(_, _)
AddElements(descriptions, texts) ==
    IF Len(texts) = 0 THEN descriptions
    ELSE AddElements(AddElement(descriptions, Head(texts)), Tail(texts))

DescriptionsIn(text_content, td_texts) ==
    AddElements(AddMatches(AddMatches(EmptyDict, FindAll(1, text_content)),
                           FindAll(2, text_content)),
                td_texts)

extract_model_descriptions(page) == DescriptionsIn(PageText(page), PageTdTexts(page))

(***************************************************************************)
(* DirectTableExtractor._classify_switch_type                              *)
(***************************************************************************)
chassis_prefixes == <<"S125", "S105", "S76", "S75", "S95", "S98">>
chassis_params ==
    {"{4e1a}{52a1}{677f}{69fd}{4f4d}", "{4e3b}{63a7}{677f}{69fd}{4f4d}",
     "{63a5}{53e3}{677f}{69fd}{4f4d}", "{69fd}{4f4d}{6570}", "chassis", "slot"}

classify_switch_type(model_name, specs) ==
    IF \E n \in 1..Len(chassis_prefixes) : startswith(model_name, chassis_prefixes[n])
    THEN V_Chassis
    ELSE IF \E param \in DOMAIN specs : AnyIn(lower(param), chassis_params)
    THEN V_Chassis
    ELSE V_Box

(***************************************************************************)
(* DirectTableExtractor.extract_all_tables                                 *)
(***************************************************************************)
\* a series-level entry of a table's result
IsSeriesKey(model_name) ==
    \/ Contains(model_name, "Series")
    \/ Contains(model_name, "Performance")
    \/ Contains(model_name, "Protocols")
    \/ \E p \in {"RFC", "IEEE", "ITU", "IETF"} : startswith(model_name, p)

\* a variant of MergeEntry in which the values an entry holds are kept
MergeEntryKeepingValues(acc, model_name, specs) ==
    IF DOMAIN specs = {} THEN acc
    ELSE IF IsSeriesKey(model_name)
    THEN [acc EXCEPT !.series_data = ODPut(@, model_name, specs)]
    ELSE [acc EXCEPT !.all_data =
            ODPut(ODInit(@, model_name), model_name,
                  DictUpdate(specs, ODInit(acc.all_data, model_name).val[model_name]))]

\* the body of "for model_name, specs in table_data.items()"; the
\* accumulator is all_data and series_data
MergeEntry(acc, model_name, specs) ==
    IF DOMAIN specs = {} THEN acc
    ELSE IF IsSeriesKey(model_name)
    THEN [acc EXCEPT !.series_data = ODPut(@, model_name, specs)]
    ELSE [acc EXCEPT !.all_data = ODUpdate(ODInit(@, model_name), model_name, specs)]

\* the loop over the entries of table_data, from entry n on
RECURSIVE MergeTable(_, _, _)
MergeTable(acc, table_data, n) ==
    IF n > Len(table_data.keys) THEN acc
    ELSE MergeTable(MergeEntry(acc, table_data.keys[n], table_data.val[table_data.keys[n]]),
                    table_data, n + 1)

\* the URL, the description and the series features of one model
PageFields(model_name, page_url, model_descriptions, series_features) ==
    (K_Url :> Str(page_url))
    @@ (IF model_name \in DOMAIN model_descriptions
        THEN (K_ModelDescription :> Str(model_descriptions[model_name])) ELSE EmptyDict)
    @@ (IF series_features # "" THEN (K_SeriesFeatures :> Str(series_features)) ELSE EmptyDict)

\* a variant of AddPageFields that gives every model described on the page
\* an entry
AddPageFieldsOfDescribed(all_data, page_url, model_descriptions, series_features) ==
    LET described == (DOMAIN model_descriptions) \ (DOMAIN all_data.val)
        added == CHOOSE s \in [1..Cardinality(described) -> described] :
                    \A m \in described : \E n \in DOMAIN s : s[n] = m
    IN  [keys |-> all_data.keys \o added,
         val |-> [m \in (DOMAIN all_data.val) \cup described |->
                    DictUpdate(IF m \in DOMAIN all_data.val THEN all_data.val[m] ELSE EmptyDict,
                               PageFields(m, page_url, model_descriptions, series_features))]]

AddPageFields(all_data, page_url, model_descriptions, series_features) ==
    [all_data EXCEPT !.val = [m \in DOMAIN all_data.val |->
        DictUpdate(all_data.val[m],
                   PageFields(m, page_url, model_descriptions, series_features))]]

known_model_prefixes == <<"S5130", "S5590", "S6520", "S5560", "S125", "S105", "S76", "S75">>
series_prefixes ==
    <<"S5130S-EI", "S5130S", "S5130", "S5590", "S6520", "S5560", "S125", "S105", "S76", "S75">>

HasPrefixOf(name, prefixes) == \E n \in 1..Len(prefixes) : startswith(name, prefixes[n])

\* the first prefix of series_prefixes the model name starts with, '' without
SeriesPrefix(first_model) ==
    IF HasPrefixOf(first_model, series_prefixes)
    THEN series_prefixes[CHOOSE n \in 1..Len(series_prefixes) :
            /\ startswith(first_model, series_prefixes[n])
            /\ \A m \in 1..(n - 1) : ~startswith(first_model, series_prefixes[m])]
    ELSE ""

AppliesToModels(series_key, series_prefix) ==
    \/ (series_prefix # "" /\ Contains(series_key, series_prefix))
    \/ Contains(series_key, "Protocols")
    \/ Contains(series_key, "Performance")

\* "for model_key in model_keys: all_data[model_key].update(series_specs)"
MergeSeriesEntry(all_data, series_key, series_specs, model_keys, series_prefix) ==
    IF AppliesToModels(series_key, series_prefix)
    THEN [all_data EXCEPT !.val = [m \in DOMAIN all_data.val |->
            IF \E k \in 1..Len(model_keys) : model_keys[k] = m
            THEN DictUpdate(all_data.val[m], series_specs)
            ELSE all_data.val[m]]]
    ELSE all_data

\* "for series_key, series_specs in series_data.items()", from entry n on
RECURSIVE MergeSeriesFrom(_, _, _, _, _)
MergeSeriesFrom(all_data, series_data, model_keys, series_prefix, n) ==
    IF n > Len(series_data.keys) THEN all_data
    ELSE MergeSeriesFrom(
            MergeSeriesEntry(all_data, series_data.keys[n], series_data.val[series_data.keys[n]],
                             model_keys, series_prefix),
            series_data, model_keys, series_prefix, n + 1)

MergeSeriesInto(all_data, series_data, model_keys) ==
    IF Len(series_data.keys) = 0 \/ Len(all_data.keys) = 0 \/ Len(model_keys) = 0
    THEN all_data
    ELSE MergeSeriesFrom(all_data, series_data, model_keys, SeriesPrefix(model_keys[1]), 1)

MergeSeries(all_data, series_data) ==
    MergeSeriesInto(all_data, series_data,
                    SelectSeq(all_data.keys, LAMBDA k : HasPrefixOf(k, known_model_prefixes)))

\* the post-processing of one model's specs
\* a variant of FoldLegacy1G in which the legacy value always replaces
FoldLegacy1GAlways(specs) ==
    DictDel(IF K_1G \in DOMAIN specs THEN DictSet(specs, K_1000BaseT, specs[K_1G]) ELSE specs,
            K_1G)

FoldLegacy1G(specs) ==
    DictDel(IF K_1G \in DOMAIN specs /\ K_1000BaseT \notin DOMAIN specs
            THEN DictSet(specs, K_1000BaseT, specs[K_1G]) ELSE specs,
            K_1G)

\* the text an f-string gives an attribute value
Format(v) == IF "int" \in DOMAIN v THEN ToString(v.int) ELSE v.str

PoePowerParts(specs) ==
    (IF K_PoePowerAC \in DOMAIN specs
     THEN <<"AC:" \o Format(specs[K_PoePowerAC]) \o "W">> ELSE << >>)
    \o (IF K_PoePowerDC \in DOMAIN specs
        THEN <<"DC:" \o Format(specs[K_PoePowerDC]) \o "W">> ELSE << >>)

FoldPoePower(specs) ==
    DictDel(DictDel(IF Len(PoePowerParts(specs)) > 0 /\ K_PoePower \notin DOMAIN specs
                    THEN DictSet(specs, K_PoePower, Str(join("/", PoePowerParts(specs))))
                    ELSE specs,
                    K_PoePowerAC),
            K_PoePowerDC)

WithSwitchType(model_name, specs) ==
    DictSet(specs, K_SwitchType, Str(classify_switch_type(model_name, specs)))

PostProcess(model_name, specs) == WithSwitchType(model_name, FoldPoePower(FoldLegacy1G(specs)))

PostProcessAll(all_data) ==
    [all_data EXCEPT !.val = [m \in DOMAIN all_data.val |-> PostProcess(m, all_data.val[m])]]

\* lines 59-129: what follows the loop over the tables
FinishPage(page, all_data, series_data) ==
    PostProcessAll(
        MergeSeries(
            AddPageFields(all_data, page.url, extract_model_descriptions(page),
                          extract_series_features(page)),
            series_data))

\* the loop over the tables, from table n on
RECURSIVE TablesFrom(_, _, _)
TablesFrom(acc, tables, n) ==
    IF n > Len(tables) THEN acc
    ELSE TablesFrom(MergeTable(acc, process_table(tables[n]), 1), tables, n + 1)

FinishAcc(page, acc) == FinishPage(page, acc.all_data, acc.series_data).val

extract_all_tables(page) ==
    FinishAcc(page, TablesFrom([all_data |-> ODEmpty, series_data |-> ODEmpty], page.tables, 1))

(***************************************************************************)
(* rule_engine: ExtractionRule and ProductProfile.                         *)
(*                                                                         *)
(* A rule is a record [name, pattern, rule_type, action, params, priority, *)
(* enabled]; params is a dict of strings.  The patterns of the model are   *)
(* plain words, which re.search finds as substrings, and words with an     *)
(* unclosed parenthesis, which re refuses to compile (re.error).           *)
(***************************************************************************)
ExtractionRule(name, pattern, rule_type, action, params, priority, enabled) ==
    [name |-> name, pattern |-> pattern, rule_type |-> rule_type, action |-> action,
     params |-> params, priority |-> priority, enabled |-> enabled]

ProductProfile(name, parent_profile, detection, mapping, skips) ==
    [name |-> name, parent_profile |-> parent_profile,
     table_detection_rules |-> detection, param_mapping_rules |-> mapping,
     skip_patterns |-> skips]

\* the names of the rules of a list
RuleNames(rules) == {rules[n].name : n \in 1..Len(rules)}

\* parent rules + [r for r in own rules if r.name not in parent names]
MergeRules(own, inherited) ==
    inherited \o SelectSeq(own, LAMBDA r : r.name \notin RuleNames(inherited))

merge_with_parent(self, parent) ==
    [self EXCEPT
        !.table_detection_rules = MergeRules(@, parent.table_detection_rules),
        !.param_mapping_rules = MergeRules(@, parent.param_mapping_rules)]

\* a variant of load_profile in which a profile with an unresolved parent
\* loses its rules
load_profile_resolved(self, profiles) ==
    IF self.parent_profile = NoneValue THEN self
    ELSE IF self.parent_profile \in DOMAIN profiles
    THEN merge_with_parent(self, profiles[self.parent_profile])
    ELSE [self EXCEPT !.table_detection_rules = << >>, !.param_mapping_rules = << >>]

\* RuleEngine._load_profile, lines 138-140: the profile is merged with its
\* parent when it names one and that one is loaded; profiles is self.profiles
load_profile(self, profiles) ==
    IF self.parent_profile # NoneValue /\ self.parent_profile \in DOMAIN profiles
    THEN merge_with_parent(self, profiles[self.parent_profile])
    ELSE self

(***************************************************************************)
(* UniversalExtractor: detection and normalization with rules              *)
(***************************************************************************)
\* re.search(pattern, text) raises re.error
ReError(pattern) == Contains(pattern, "(")

\* rule a comes before rule b in sorted(rules, key=lambda r: r.priority,
\* reverse=True): a stable sort
Before(rules, a, b) ==
    \/ rules[a].priority > rules[b].priority
    \/ (rules[a].priority = rules[b].priority /\ a < b)

Rank(rules, a) == Cardinality({b \in 1..Len(rules) : Before(rules, b, a)}) + 1

\* a variant of sorted_by_priority that leaves the rules in the order of the
\* list
in_list_order(rules) == rules

sorted_by_priority(rules) ==
    [k \in 1..Len(rules) |-> rules[CHOOSE a \in 1..Len(rules) : Rank(rules, a) = k]]

\* the rule is enabled, its pattern compiles and is found in the text, and it
\* is a map_to rule where only those return
RuleFires(rule, text_lower, map_only) ==
    /\ rule.enabled
    /\ ~ReError(rule.pattern)
    /\ Contains(text_lower, rule.pattern)
    /\ (map_only => rule.action = "map_to")

\* a variant of FirstRule in which a rule that does not compile ends the loop
FirstRuleUntilError(ordered, text_lower, map_only) ==
    Leftmost({n \in 1..Len(ordered) :
                /\ RuleFires(ordered[n], text_lower, map_only)
                /\ \A m \in 1..(n - 1) :
                      ordered[m].enabled => ~ReError(ordered[m].pattern)})

\* the index of the first rule of the ordered list that fires, 0 without one
FirstRule(ordered, text_lower, map_only) ==
    Leftmost({n \in 1..Len(ordered) : RuleFires(ordered[n], text_lower, map_only)})

\* params.get(key, default)
Param(rule, key, default) ==
    IF key \in DOMAIN rule.params THEN rule.params[key] ELSE default

\* the parameter of rule n of the ordered list, otherwise when n = 0
RuleParam(ordered, n, key, default, otherwise) ==
    IF n # 0 THEN Param(ordered[n], key, default) ELSE otherwise

\* one "for rule in sorted(...)" loop: the parameter of the first rule that
\* fires, otherwise when no rule returns
ApplyRules(ordered, text_lower, map_only, key, default, otherwise) ==
    RuleParam(ordered, FirstRule(ordered, text_lower, map_only), key, default, otherwise)

FallbackTableDetection(text_lower) ==
    IF Contains(text_lower, "organization") /\ Contains(text_lower, "ieee")
    THEN "protocols"
    ELSE IF Contains(text_lower, "poe power capacity") /\ Contains(text_lower, "quantity")
    THEN "poe_power"
    ELSE IF AnyIn(text_lower, {"mac address entries", "vlan table"})
    THEN "performance"
    ELSE IF Contains(text_lower, "software")
            /\ (Contains(text_lower, "vlan") \/ Contains(text_lower, "routing"))
    THEN "software"
    ELSE "hardware"

fallback_table_detection(text) == FallbackTableDetection(lower(text))

\* the profile's rules, then the global rules, then the fallback
DetectWithRules(profile, global_rules, text, text_lower) ==
    ApplyRules(sorted_by_priority(profile.table_detection_rules), text_lower, FALSE,
               "extractor", "generic",
               ApplyRules(sorted_by_priority(global_rules.table_detection), text_lower, FALSE,
                          "extractor", "generic",
                          fallback_table_detection(text)))

detect_table_type_with_rules(profile, global_rules, text) ==
    DetectWithRules(profile, global_rules, text, lower(text))

\* the profile's rules, then the global rules, then None
NormalizeWithRules(profile, global_rules, param_lower) ==
    ApplyRules(sorted_by_priority(profile.param_mapping_rules), param_lower, TRUE,
               "target", NoneValue,
               ApplyRules(sorted_by_priority(global_rules.param_mapping), param_lower, TRUE,
                          "target", NoneValue,
                          NoneValue))

universal_normalize_param_name(profile, global_rules, param) ==
    NormalizeWithRules(profile, global_rules, lower(param))

\* _create_default_profile
default_profile == ProductProfile("Default", NoneValue, << >>, << >>, << >>)

(***************************************************************************)
(* UniversalExtractor: the page pipeline                                   *)
(***************************************************************************)
\* the last cell of the row under header h
LastCell(headers, cells, h) ==
    CHOOSE n \in 1..Len(cells) :
        /\ n <= Len(headers) /\ headers[n] = h
        /\ \A m \in (n + 1)..Len(cells) : m > Len(headers) \/ headers[m] # h

\* row_data[headers[i]] = cell text, for the cells that have a header
UniversalRowData(headers, cells) ==
    [h \in {headers[n] : n \in 1..(IF Len(cells) < Len(headers) THEN Len(cells)
                                    ELSE Len(headers))}
        |-> cells[LastCell(headers, cells, h)].text]

\* the rows of at least two cells, each as a dict, the empty dicts dropped
UniversalParsedRows(headers, wide) ==
    [headers |-> headers,
     rows |-> SelectSeq([r \in 1..Len(wide) |-> UniversalRowData(headers, wide[r])],
                        LAMBDA row_data : DOMAIN row_data # {})]

UniversalParsed(table, headers) ==
    UniversalParsedRows(headers,
                        SelectSeq(IF Len(headers) > 0 THEN Tail(table.rows) ELSE table.rows,
                                  LAMBDA cells : Len(cells) >= 2))

universal_parse_table_structure(table) ==
    UniversalParsed(table, IF Len(table.rows) = 0 THEN << >> ELSE RowTexts(table.rows[1]))

\* r'^[A-Z]{2,}\d{3,}', u the index after the leading capitals
CapitalsThenDigits(text, u) == u >= 3 /\ \A k \in 0..2 : IsDigit(At(text, u + k))

\* re.match of r'^S\d{4}[A-Z]*-[\w-]+' or of r'^[A-Z]{2,}\d{3,}'
is_model_name(text) ==
    \/ ModelNameAt(text, 1, FALSE) # 0
    \/ CapitalsThenDigits(text, RunEnd(text, 1, Uppers))

universal_is_multi_model_table(headers) ==
    Len(headers) > 2 /\ \E n \in 2..Len(headers) : is_model_name(headers[n])

universal_dispatch(table_type, headers, rows) ==
    IF table_type = "poe_power" THEN extract_poe_table(headers, rows)
    ELSE IF table_type = "software" THEN extract_software_table(headers, rows)
    ELSE IF table_type = "performance" THEN extract_performance_table(headers, rows)
    ELSE IF table_type = "protocols" THEN extract_protocols_table(headers, rows)
    ELSE IF universal_is_multi_model_table(headers)
    THEN extract_multi_model_table(headers, rows)
    ELSE extract_generic_table(headers, rows)

UniversalProcessParsed(table_type, parsed) ==
    IF Len(parsed.headers) = 0 \/ Len(parsed.rows) = 0 THEN NoneTable
    ELSE universal_dispatch(table_type, parsed.headers, parsed.rows)

UniversalProcessText(profile, global_rules, table, text) ==
    IF Len(text) < MinTableText THEN NoneTable
    ELSE UniversalProcessParsed(detect_table_type_with_rules(profile, global_rules, text),
                                universal_parse_table_structure(table))

process_table_with_rules(profile, global_rules, table) ==
    UniversalProcessText(profile, global_rules, table, TableText(table))

\* a match is kept with a length in 11..199, the first of a model
UniversalAddMatch(descriptions, model, desc) ==
    IF Len(desc) > 10 /\ Len(desc) < 200 /\ model \notin DOMAIN descriptions
    THEN DictSet(descriptions, model, desc)
    ELSE descriptions

RECURSIVE UniversalAddMatches(_, _)
UniversalAddMatches(descriptions, matches) ==
    IF Len(matches) = 0 THEN descriptions
    ELSE UniversalAddMatches(
            UniversalAddMatch(descriptions, strip(Head(matches).model),
                              strip(Head(matches).desc)),
            Tail(matches))

UniversalDescriptionsIn(text_content) ==
    UniversalAddMatches(UniversalAddMatches(EmptyDict, FindAll(1, text_content)),
                        FindAll(2, text_content))

universal_extract_model_descriptions(page) == UniversalDescriptionsIn(PageText(page))

\* the tests on the stripped title, skips the profile's skip_patterns
UniversalTitleText(skips, text) ==
    /\ Len(text) <= 80
    /\ Len(text) >= 5
    /\ ~\E n \in 1..Len(skips) : Contains(lower(text), skips[n])
    /\ ~Contains(lower(text), "continued")

universal_extract_series_features(profile, page) ==
    JoinTitles(SelectSeq(PageHeadings(page),
                         LAMBDA h : UniversalTitleText(profile.skip_patterns, strip(h))))

universal_chassis_params ==
    {"{4e1a}{52a1}{677f}{69fd}{4f4d}", "{4e3b}{63a7}{677f}{69fd}{4f4d}",
     "{63a5}{53e3}{677f}{69fd}{4f4d}"}

universal_classify_switch_type(model_name, specs) ==
    IF \E n \in 1..Len(chassis_prefixes) : startswith(model_name, chassis_prefixes[n])
    THEN V_Chassis
    ELSE IF \E param \in DOMAIN specs : AnyIn(param, universal_chassis_params)
    THEN V_Chassis
    ELSE V_Box

\* the series-level entries of _merge_table_data
UniversalIsSeriesKey(model_name) ==
    \/ Contains(model_name, "Series")
    \/ Contains(model_name, "Performance")
    \/ Contains(model_name, "Protocols")

UniversalMergeEntry(acc, model_name, specs) ==
    IF DOMAIN specs = {} THEN acc
    ELSE IF UniversalIsSeriesKey(model_name)
    THEN [acc EXCEPT !.series_data = ODPut(@, model_name, specs)]
    ELSE [acc EXCEPT !.all_data = ODUpdate(ODInit(@, model_name), model_name, specs)]

RECURSIVE UniversalMergeTable(_, _, _)
UniversalMergeTable(acc, table_data, n) ==
    IF n > Len(table_data.keys) THEN acc
    ELSE UniversalMergeTable(
            UniversalMergeEntry(acc, table_data.keys[n], table_data.val[table_data.keys[n]]),
            table_data, n + 1)

\* every series entry, in order, into every model
RECURSIVE UpdateAll(_, _, _)
UpdateAll(extracted_data, series_data, n) ==
    IF n > Len(series_data.keys) THEN extracted_data
    ELSE UpdateAll([extracted_data EXCEPT !.val = [m \in DOMAIN extracted_data.val |->
                       DictUpdate(extracted_data.val[m], series_data.val[series_data.keys[n]])]],
                   series_data, n + 1)

\* "if series_data and self.extracted_data"
UpdateModels(merged) ==
    IF Len(merged.series_data.keys) > 0 /\ Len(merged.all_data.keys) > 0
    THEN [merged EXCEPT !.all_data = UpdateAll(@, merged.series_data, 1)]
    ELSE merged

merge_table_data(acc, table_data) == UpdateModels(UniversalMergeTable(acc, table_data, 1))

UniversalWithSwitchType(model_name, specs) ==
    DictSet(specs, K_SwitchType, Str(universal_classify_switch_type(model_name, specs)))

apply_post_processing(extracted_data) ==
    [extracted_data EXCEPT !.val = [m \in DOMAIN extracted_data.val |->
        UniversalWithSwitchType(m, FoldPoePower(FoldLegacy1G(extracted_data.val[m])))]]

\* steps 6 and 7 of extract: what follows the loop over the tables
FinishExtract(profile, page, extracted_data) ==
    AddPageFields(apply_post_processing(extracted_data), page.url,
                  universal_extract_model_descriptions(page),
                  universal_extract_series_features(profile, page))

\* step 5 of extract: the loop over the tables, from table n on
RECURSIVE UniversalTablesFrom(_, _, _, _, _)
UniversalTablesFrom(profile, global_rules, acc, tables, n) ==
    IF n > Len(tables) THEN acc
    ELSE UniversalTablesFrom(
            profile, global_rules,
            merge_table_data(acc, process_table_with_rules(profile, global_rules, tables[n])),
            tables, n + 1)

extract(profile, global_rules, page) ==
    FinishExtract(profile, page,
                  UniversalTablesFrom(profile, global_rules,
                                      [all_data |-> ODEmpty, series_data |-> ODEmpty],
                                      page.tables, 1).all_data).val

(***************************************************************************)
(* The pages the extractors are run on.  A table is padded by its caption  *)
(* to a text of exactly MinTableText characters, or of one less.           *)
(***************************************************************************)
MaxTables == 2

BareTable(layout, rows) == [layout |-> layout, caption |-> "", heading |-> FALSE, rows |-> rows]

Padded(layout, rows, total) ==
    [BareTable(layout, rows) EXCEPT
        !.caption = Fill(total - Len(TableText(BareTable(layout, rows))))]

HardwareRows ==
    << <<Th("Feature"), Th("S5130S-28P-EI"), Th("S5130S-52P-EI")>>,
       <<Cell("Switching Capacity"), Cell("598 Gbps"), Cell("670 Gbps")>> >>

\* a hardware table of two models, and the same table one character short
HardwareTable == Padded("thead_tbody", HardwareRows, MinTableText)
ShortHardwareTable == Padded("thead_tbody", HardwareRows, MinTableText - 1)

\* a hardware table with a row that names a software feature
VlanHardwareTable ==
    Padded("plain",
           Append(HardwareRows, <<Cell("VLAN"), Cell("4094"), Cell("4094")>>),
           MinTableText)

\* a hardware table of another series, with a port row and a value "-"
OtherHardwareTable ==
    Padded("tbody",
           << <<Cell("Feature"), Cell("S1000-A"), Cell("S1000-B")>>,
              <<Cell("Switching Capacity"), Cell("100Gbps"), Cell("200Gbps")>>,
              <<Cell("SFP+ Ports"), Cell("4"), Cell("-")>> >>,
           MinTableText)

ProtocolsTable ==
    Padded("thead",
           << <<Th("Organization"), Th("Standards and protocols")>>,
              <<Cell("IEEE"), Cell("802.1Q")>>,
              <<Cell("IETF"), Cell("RFC 1213")>> >>,
           MinTableText)

PoeTable ==
    Padded("plain",
           << <<Th("Model"), Th("PoE power capacity"), Th("Quantity of PoE ports")>>,
              <<Cell("A1"), Cell("AC:370"), Cell("15.4W (802.3af): 8")>>,
              <<Cell("A2"), Cell("740"), Cell("30W (802.3at): 4")>> >>,
           MinTableText)

\* a second hardware table of that series: other values, one of them "-"
UpgradedHardwareTable ==
    Padded("thead",
           << <<Th("Feature"), Th("S1000-A"), Th("S1000-B")>>,
              <<Cell("Switching Capacity"), Cell("-"), Cell("256Gbps")>>,
              <<Cell("Weight"), Cell("3 kg"), Cell("4 kg")>> >>,
           MinTableText)

\* a small table of the navigation, with an h3 caption
NavigationTable ==
    [layout |-> "plain", caption |-> "Flexible networking", heading |-> TRUE,
     rows |-> << <<Cell("S5130S-28P-EI: 24 x 10/100/1000BASE-T Ports")>>,
                 <<Cell("S1000-A"), Cell("compact access switch")>> >>]

TableSet ==
    {HardwareTable, ShortHardwareTable, VlanHardwareTable, OtherHardwareTable,
     UpgradedHardwareTable, ProtocolsTable, PoeTable, NavigationTable}

RECURSIVE SeqsUpTo(_, _)
SeqsUpTo(S, n) ==
    IF n = 0 THEN {<< >>}
    ELSE SeqsUpTo(S, n - 1)
         \cup {Append(s, x) : s \in {t \in SeqsUpTo(S, n - 1) : Len(t) = n - 1}, x \in S}

Pages ==
    {[url |-> "https://www.h3c.com/en/switches", headings |-> << >>, tables |-> tables] :
        tables \in SeqsUpTo(TableSet, MaxTables)}

\* the configurations of the UniversalExtractor that pages are extracted
\* with: the default profile without global rules, and a profile of its own
\* with global rules
SwitchProfile ==
    ProductProfile("h3c_switch", NoneValue,
        <<ExtractionRule("detect_poe", "poe power capacity", "table_detection",
                         "use_extractor", ("extractor" :> "poe_power"), 100, TRUE)>>,
        <<ExtractionRule("mapping_poe", "poe power", "param_mapping", "map_to",
                         ("target" :> K_PoePower), 100, TRUE)>>,
        <<"hardware">>)

NoRules == [table_detection |-> << >>, param_mapping |-> << >>]

GlobalRules ==
    [table_detection |->
        <<ExtractionRule("detect_broken", "standards(", "table_detection",
                         "use_extractor", ("extractor" :> "protocols"), 200, TRUE)>>,
     param_mapping |->
        <<ExtractionRule("mapping_weight", "weight", "param_mapping", "map_to",
                         ("target" :> "Weight"), 100, TRUE),
          ExtractionRule("mapping_power", "power", "param_mapping", "map_to",
                         ("target" :> "Power"), 50, TRUE)>>]

Configurations ==
    {[profile |-> default_profile, global_rules |-> NoRules],
     [profile |-> SwitchProfile, global_rules |-> GlobalRules]}

\* and those its single functions are called with: also the default profile
\* with global rules
CallConfigurations ==
    Configurations \cup {[profile |-> default_profile, global_rules |-> GlobalRules]}

(***************************************************************************)
(* The arguments the single functions are called with.                     *)
(***************************************************************************)
MaxFragments == 3
MaxPhrases == 2

Layouts == {"thead_tbody", "thead", "tbody", "plain"}

\* a POE table of one model with two rows of power and ports; the second row
\* repeats the model, leaves its cell empty, or has no cell for it because
\* the model cell of the first row spans both rows (rowspan=2)
PoeTableRows(model, power, ports, second) ==
    << <<Th("Model"), Th("PoE power capacity"), Th("Quantity of PoE ports")>>,
       <<Cell(model), Cell("AC:370"), Cell("15.4W (802.3af): 8")>>,
       IF second = "rowspan" THEN <<Cell(power), Cell(ports)>>
       ELSE IF second = "empty" THEN <<Cell(""), Cell(power), Cell(ports)>>
       ELSE <<Cell(model), Cell(power), Cell(ports)>> >>

PoeTables ==
    {BareTable(layout, PoeTableRows(model, power, ports, second)) :
        layout \in Layouts, model \in {"M1", "S5130S-28P-PWR"},
        power \in {"DC:150", "150"}, ports \in {"30W (802.3at): 4"},
        second \in {"rowspan", "empty", "repeated"}}

\* a table of three or four columns with one data row: a first cell of
\* colspan 1, 2 or 3 and the cells that follow it
ColspanTables ==
    {BareTable(layout, <<headers, <<SpanCell("A", colspan)>> \o following>>) :
        layout \in Layouts,
        headers \in {<<Th("H1"), Th("H2"), Th("H3")>>,
                     <<Th("H1"), Th("H2"), Th("H3"), Th("H4")>>},
        colspan \in 1..3,
        following \in {<< >>, <<Cell("B")>>, <<Cell("B"), Cell("C")>>}}

TableInputs == {[table |-> t] : t \in PoeTables \cup ColspanTables}

\* the texts of up to n of the fragments
Texts(fragments, sep, n) == {join(sep, s) : s \in SeqsUpTo(fragments, n)}

DetectFragments ==
    {"Organization", "ORGANIZATION", "IEEE", "ieee 802.3at", "802.3af",
     "PoE power capacity", "Quantity of PoE ports", "Standards and protocols",
     "VLAN", "Software"}

DetectInputs ==
    {[function |-> f, text |-> t] :
        f \in {"_detect_table_type", "_detect_table_type_with_rules",
               "_fallback_table_detection"},
        t \in Texts(DetectFragments, " ", MaxFragments)}

PortFeatures ==
    {"SFP+ Ports", "10G SFP+ ports", "SFP Plus ports", "SFP Ports", "SFP28 Ports",
     "SFP+/SFP28 Ports", "QSFP+ Ports", "QSFP28 Ports", "10/100/1000BASE-T Ports",
     "Multigiga ports (1G/2.5G/5G)", "Ethernet ports", "Console port"}

PortValues ==
    {"4", "16", "24 (8*BASE-T combo)", "8 x 10G", "4 (SFP28 capable)", "2 x 2.5G",
     "-", "/", "", " 4", "Not supported"}

PortInputs == {[feature |-> f, value |-> v] : f \in PortFeatures, v \in PortValues}

PoePhrases ==
    {"15.4W (802.3af): 8", "15.4W (802.3af): 60", "15.4W (802.3af): 0",
     "15.4W: 12 (802.3af)", "30W (802.3at): 4", "30W (802.3at): 49",
     "30W: 48 (802.3at)", "60W (802.3bt): 2", "60W: 100 (802.3bt)",
     "90W (802.3bt): 1", "90W (802.3bt): 480", "PoE ports"}

\* the phrases a text is made of, and the text
PoeInputs ==
    {[phrases |-> s, text |-> join(", ", s)] : s \in SeqsUpTo(PoePhrases, MaxPhrases)}

ParamNames ==
    {"Switching Capacity", "switching capacity", "Forwarding rate", "Weight",
     "PoE power", "PoE power capacity", "Power consumption", "Dimensions (W x D x H)",
     "Operating temperature", "Console port", "MTBF", "Fan number",
     "Input voltage", "Humidity", "USB", "Unknown feature", ""}

NormalizeInputs ==
    {[function |-> f, param |-> p] :
        f \in {"DirectTableExtractor._normalize_param_name",
               "UniversalExtractor._normalize_param_name"},
        p \in ParamNames}

\* the rules a parent and a child profile declare: each has a rule
\* "mapping_poe" and a rule "detect_poe" of its own, and rules of other names
ParentMappingPoe ==
    ExtractionRule("mapping_poe", "poe power", "param_mapping", "map_to",
                   ("target" :> K_PoePower), 100, TRUE)
ChildMappingPoe ==
    ExtractionRule("mapping_poe", "poe budget", "param_mapping", "skip",
                   ("target" :> "PoE budget"), 150, TRUE)
ParentMappingWeight ==
    ExtractionRule("mapping_weight", "weight", "param_mapping", "map_to",
                   ("target" :> "Weight"), 100, TRUE)
ChildMappingFan ==
    ExtractionRule("mapping_fan", "fan", "param_mapping", "map_to",
                   ("target" :> "Fans"), 100, TRUE)
ParentDetectPoe ==
    ExtractionRule("detect_poe", "poe power capacity", "table_detection",
                   "use_extractor", ("extractor" :> "poe_power"), 100, TRUE)
ChildDetectPoe ==
    ExtractionRule("detect_poe", "poe budget", "table_detection",
                   "use_extractor", ("extractor" :> "generic"), 90, FALSE)
ParentDetectEntries ==
    ExtractionRule("detect_entries", "entries", "table_detection",
                   "use_extractor", ("extractor" :> "performance"), 100, TRUE)
ChildDetectStandards ==
    ExtractionRule("detect_standards", "standards", "table_detection",
                   "use_extractor", ("extractor" :> "protocols"), 100, TRUE)

\* the lists of rules of S in which no rule occurs twice
RuleLists(S) ==
    {s \in SeqsUpTo(S, Cardinality(S)) : \A i, j \in 1..Len(s) : s[i] = s[j] => i = j}

ParentProfiles ==
    {ProductProfile("base", NoneValue, detection, mapping, << >>) :
        detection \in RuleLists({ParentDetectPoe, ParentDetectEntries}),
        mapping \in RuleLists({ParentMappingPoe, ParentMappingWeight})}

ChildProfiles ==
    {ProductProfile("h3c_switch", parent_profile, detection, mapping, << >>) :
        parent_profile \in {NoneValue, "base", "missing"},
        detection \in RuleLists({ChildDetectPoe, ChildDetectStandards}),
        mapping \in RuleLists({ChildMappingPoe, ChildMappingFan})}

ProfileInputs ==
    {[self |-> child, profiles |-> ("base" :> parent)] :
        child \in ChildProfiles, parent \in ParentProfiles}

(***************************************************************************)
(* The state of one call.                                                  *)
(***************************************************************************)
VARIABLES
    extractor,      \* "direct": DirectTableExtractor, "universal": UniversalExtractor
    profile,        \* self.profile of the UniversalExtractor
    global_rules,   \* engine.global_rules
    page,           \* the parsed page
    index,          \* the position of the loop over the tables
    table_data,     \* the result of the last table processed
    all_data,       \* all_data of extract_all_tables, self.extracted_data of extract
    series_data,    \* series_data
    result,         \* the mapping returned
    args,           \* the arguments of a call of a single function
    returned,       \* its return value
    engine,         \* the RuleEngine while it loads: the profile files of the
                    \* directory, those not yet loaded, and self.profiles
    pc              \* "tables": in the loop, "done": returned;
                    \* "call", "parsed", "returned": a call of a single function

tables_state == <<page, index, table_data, all_data, series_data, result>>

vars == <<extractor, profile, global_rules, tables_state, args, returned, engine, pc>>

\* a RuleEngine that has loaded its configuration
Loaded == [profile_dir |-> {}, pending |-> {}, profiles |-> << >>]

Init ==
    /\ extractor \in {"direct", "universal"}
    /\ \E c \in Configurations :
          /\ profile = c.profile
          /\ global_rules = c.global_rules
          /\ extractor = "direct" => c.profile = default_profile
    /\ page \in Pages
    /\ index = 1
    /\ table_data = NoneTable
    /\ all_data = ODEmpty
    /\ series_data = ODEmpty
    /\ result = << >>
    /\ args = << >>
    /\ returned = NoneValue
    /\ engine = Loaded
    /\ pc = "tables"

\* DirectTableExtractor.extract_all_tables: one pass of the loop of lines 44-57
ProcessTable ==
    /\ pc = "tables"
    /\ extractor = "direct"
    /\ index <= Len(page.tables)
    /\ table_data' = process_table(page.tables[index])
    /\ LET acc == MergeTable([all_data |-> all_data, series_data |-> series_data],
                             table_data', 1)
       IN  /\ all_data' = acc.all_data
           /\ series_data' = acc.series_data
    /\ index' = index + 1
    /\ UNCHANGED <<extractor, profile, global_rules, page, result, args, returned, engine, pc>>

\* DirectTableExtractor.extract_all_tables: lines 59-129
Finish ==
    /\ pc = "tables"
    /\ extractor = "direct"
    /\ index > Len(page.tables)
    /\ all_data' = FinishPage(page, all_data, series_data)
    /\ result' = all_data'.val
    /\ pc' = "done"
    /\ UNCHANGED <<extractor, profile, global_rules, page, index, table_data, series_data,
                   args, returned, engine>>

\* UniversalExtractor.extract: one pass of the loop of lines 75-78
ProcessTableWithRules ==
    /\ pc = "tables"
    /\ extractor = "universal"
    /\ index <= Len(page.tables)
    /\ table_data' = process_table_with_rules(profile, global_rules, page.tables[index])
    /\ LET acc == merge_table_data([all_data |-> all_data, series_data |-> series_data],
                                   table_data')
       IN  /\ all_data' = acc.all_data
           /\ series_data' = acc.series_data
    /\ index' = index + 1
    /\ UNCHANGED <<extractor, profile, global_rules, page, result, args, returned, engine, pc>>

\* UniversalExtractor.extract: lines 80-96
FinishUniversal ==
    /\ pc = "tables"
    /\ extractor = "universal"
    /\ index > Len(page.tables)
    /\ all_data' = FinishExtract(profile, page, all_data)
    /\ result' = all_data'.val
    /\ pc' = "done"
    /\ UNCHANGED <<extractor, profile, global_rules, page, index, table_data, series_data,
                   args, returned, engine>>

Next == ProcessTable \/ Finish \/ ProcessTableWithRules \/ FinishUniversal

Spec == Init /\ [][Next]_vars

(***************************************************************************)
(* The call of a single function: its arguments are drawn from inputs, and *)
(* no page is being extracted.                                             *)
(***************************************************************************)
NoPage ==
    /\ page = [url |-> "", headings |-> << >>, tables |-> << >>]
    /\ index = 1
    /\ table_data = NoneTable
    /\ all_data = ODEmpty
    /\ series_data = ODEmpty
    /\ result = << >>

\* a call on a DirectTableExtractor, or on the rule engine
Call(inputs) ==
    /\ extractor = "direct"
    /\ profile = default_profile
    /\ global_rules = NoRules
    /\ NoPage
    /\ args \in inputs
    /\ returned = NoneValue
    /\ engine = Loaded
    /\ pc = "call"

\* a call on a UniversalExtractor of one of the configurations
CallWithRules(inputs) ==
    /\ extractor = "universal"
    /\ \E c \in CallConfigurations : profile = c.profile /\ global_rules = c.global_rules
    /\ NoPage
    /\ args \in inputs
    /\ returned = NoneValue
    /\ engine = Loaded
    /\ pc = "call"

Return(value) ==
    /\ returned' = value
    /\ pc' = "returned"
    /\ UNCHANGED <<extractor, profile, global_rules, tables_state, args, engine>>

\* DirectTableExtractor._parse_table_structure, then _extract_poe_table on
\* its headers and rows, as _process_table calls them
InitTable == Call(TableInputs)

ParseTableStructure ==
    /\ pc = "call"
    /\ returned' = parse_table_structure(args.table)
    /\ pc' = "parsed"
    /\ UNCHANGED <<extractor, profile, global_rules, tables_state, args, engine>>

ExtractPoeTable ==
    /\ pc = "parsed"
    /\ Len(returned.headers) > 0 /\ Len(returned.rows) > 0
    /\ Return(extract_poe_table(returned.headers, returned.rows))

NextTable == ParseTableStructure \/ ExtractPoeTable

SpecTable == InitTable /\ [][NextTable]_vars

\* the detection of the table type
InitDetect ==
    \/ Call({a \in DetectInputs : a.function = "_detect_table_type"})
    \/ CallWithRules({a \in DetectInputs : a.function # "_detect_table_type"})

DetectTableTypeDirect ==
    /\ pc = "call"
    /\ args.function = "_detect_table_type"
    /\ Return(detect_table_type(args.text))

DetectTableTypeWithRules ==
    /\ pc = "call"
    /\ args.function = "_detect_table_type_with_rules"
    /\ Return(detect_table_type_with_rules(profile, global_rules, args.text))

FallbackTableDetectionCall ==
    /\ pc = "call"
    /\ args.function = "_fallback_table_detection"
    /\ Return(fallback_table_detection(args.text))

NextDetect == DetectTableTypeDirect \/ DetectTableTypeWithRules \/ FallbackTableDetectionCall

SpecDetect == InitDetect /\ [][NextDetect]_vars

\* DirectTableExtractor._parse_port_description
InitPorts == Call(PortInputs)

ParsePortDescription ==
    /\ pc = "call"
    /\ Return(parse_port_description(args.feature, args.value))

NextPorts == ParsePortDescription

SpecPorts == InitPorts /\ [][NextPorts]_vars

\* DirectTableExtractor._parse_poe_ports
InitPoePorts == Call(PoeInputs)

ParsePoePorts ==
    /\ pc = "call"
    /\ Return(parse_poe_ports(args.text))

NextPoePorts == ParsePoePorts

SpecPoePorts == InitPoePorts /\ [][NextPoePorts]_vars

\* the normalization of a parameter name
InitNormalize ==
    \/ Call({a \in NormalizeInputs :
                a.function = "DirectTableExtractor._normalize_param_name"})
    \/ CallWithRules({a \in NormalizeInputs :
                a.function = "UniversalExtractor._normalize_param_name"})

NormalizeParamNameDirect ==
    /\ pc = "call"
    /\ extractor = "direct"
    /\ Return(normalize_param_name(args.param))

NormalizeParamNameUniversal ==
    /\ pc = "call"
    /\ extractor = "universal"
    /\ Return(universal_normalize_param_name(profile, global_rules, args.param))

NextNormalize == NormalizeParamNameDirect \/ NormalizeParamNameUniversal

SpecNormalize == InitNormalize /\ [][NextNormalize]_vars

\* RuleEngine._load_profile: the merge of a profile with its parent
InitProfiles == Call(ProfileInputs)

LoadProfile ==
    /\ pc = "call"
    /\ Return(load_profile(args.self, args.profiles))

NextProfiles == LoadProfile

SpecProfiles == InitProfiles /\ [][NextProfiles]_vars

(***************************************************************************)
(* Rule lists with rules whose pattern does not compile.                   *)
(***************************************************************************)
\* detection rules: two that compile, and one that does not, with a priority
\* above theirs or that of the first of them, and also disabled
DetectStandards ==
    ExtractionRule("detect_standards", "standards", "table_detection",
                   "use_extractor", ("extractor" :> "protocols"), 100, TRUE)
DetectPoe ==
    ExtractionRule("detect_poe", "poe", "table_detection",
                   "use_extractor", ("extractor" :> "poe_power"), 50, TRUE)
DetectBroken(priority, enabled) ==
    ExtractionRule("detect_broken", "standards(", "table_detection",
                   "use_extractor", ("extractor" :> "software"), priority, enabled)

DetectionRules ==
    {DetectStandards, DetectPoe}
    \cup {DetectBroken(200, TRUE), DetectBroken(100, TRUE), DetectBroken(200, FALSE)}

\* mapping rules: the same, with a rule that matches and is no map_to rule
MappingPower ==
    ExtractionRule("mapping_power", "power", "param_mapping", "map_to",
                   ("target" :> "Power"), 100, TRUE)
MappingPoe ==
    ExtractionRule("mapping_poe", "poe", "param_mapping", "map_to",
                   ("target" :> K_PoePower), 50, TRUE)
MappingSkip ==
    ExtractionRule("mapping_skip", "poe power", "param_mapping", "skip",
                   EmptyDict, 150, TRUE)
MappingBroken(priority, enabled) ==
    ExtractionRule("mapping_broken", "power(", "param_mapping", "map_to",
                   ("target" :> "Broken"), priority, enabled)

MappingRules ==
    {MappingPower, MappingPoe, MappingSkip}
    \cup {MappingBroken(200, TRUE), MappingBroken(100, TRUE), MappingBroken(200, FALSE)}

MaxRules == 2

\* the lists of up to MaxRules rules of S, no rule twice
ShortRuleLists(S) ==
    {s \in SeqsUpTo(S, MaxRules) : \A i, j \in 1..Len(s) : s[i] = s[j] => i = j}

RuleTexts == {"Standards and protocols", "PoE power capacity standards(",
              "PoE standards", "Switching Capacity"}

RuleParams == {"PoE power", "PoE power(W)", "Power consumption", "PoE ports", "Weight"}

RuleInputs ==
    {[function |-> "_detect_table_type_with_rules", text |-> t] : t \in RuleTexts}
    \cup {[function |-> "_normalize_param_name", param |-> p] : p \in RuleParams}

\* the rules of the list whose pattern compiles
Compiling(rules) == SelectSeq(rules, LAMBDA rule : ~ReError(rule.pattern))

\* the profile and the global rules without the rules that do not compile
CompilingProfile(p) ==
    [p EXCEPT !.table_detection_rules = Compiling(@),
              !.param_mapping_rules = Compiling(@)]

CompilingRules(g) ==
    [table_detection |-> Compiling(g.table_detection),
     param_mapping |-> Compiling(g.param_mapping)]

\* a call on a UniversalExtractor whose profile and global rules are lists
\* of rules of detection or of mapping
InitRuleLists(detection, mapping) ==
    /\ extractor = "universal"
    /\ NoPage
    /\ args \in RuleInputs
    /\ \E own, global \in
            IF args.function = "_normalize_param_name"
            THEN ShortRuleLists(mapping) ELSE ShortRuleLists(detection) :
          IF args.function = "_normalize_param_name"
          THEN /\ profile = ProductProfile("h3c_switch", NoneValue, << >>, own, << >>)
               /\ global_rules = [table_detection |-> << >>, param_mapping |-> global]
          ELSE /\ profile = ProductProfile("h3c_switch", NoneValue, own, << >>, << >>)
               /\ global_rules = [table_detection |-> global, param_mapping |-> << >>]
    /\ returned = NoneValue
    /\ engine = Loaded
    /\ pc = "call"

InitRules == InitRuleLists(DetectionRules, MappingRules)

NormalizeParamNameWithRules ==
    /\ pc = "call"
    /\ args.function = "_normalize_param_name"
    /\ Return(universal_normalize_param_name(profile, global_rules, args.param))

NextRules == DetectTableTypeWithRules \/ NormalizeParamNameWithRules

SpecRules == InitRules /\ [][NextRules]_vars
(***************************************************************************)
(* RuleEngine._load_all_configs: the profile files of the directory are    *)
(* loaded one by one, in the order of profile_dir.glob, which is any order.*)
(***************************************************************************)
\* profile files: a profile without parent, a child of it, a child of that
\* child, a profile whose parent is in no file, and one that names itself
BaseFile ==
    ProductProfile("base", NoneValue, <<ParentDetectPoe, ParentDetectEntries>>,
                   <<ParentMappingPoe, ParentMappingWeight>>, << >>)
SwitchFile ==
    ProductProfile("h3c_switch", "base", <<ChildDetectPoe, ChildDetectStandards>>,
                   <<ChildMappingPoe, ChildMappingFan>>, << >>)
PoeSwitchFile ==
    ProductProfile("h3c_poe_switch", "h3c_switch", << >>, <<ChildMappingFan>>, << >>)
RouterFile ==
    ProductProfile("h3c_router", "missing", <<ChildDetectStandards>>,
                   <<ParentMappingWeight>>, << >>)
LoopFile ==
    ProductProfile("loop", "loop", <<ParentDetectEntries>>, << >>, << >>)

ProfileFiles == {BaseFile, SwitchFile, PoeSwitchFile, RouterFile, LoopFile}

InitEngine ==
    /\ extractor = "direct"
    /\ profile = default_profile
    /\ global_rules = NoRules
    /\ NoPage
    /\ args = << >>
    /\ returned = NoneValue
    /\ \E files \in SUBSET ProfileFiles :
          engine = [profile_dir |-> files, pending |-> files, profiles |-> << >>]
    /\ pc = "loading"

\* self.profiles[profile.name] = profile
Register(profiles, loaded) == (loaded.name :> loaded) @@ profiles

\* one pass of the loop of lines 82-85 over a file not yet loaded
LoadProfileFile ==
    /\ pc = "loading"
    /\ \E yaml_file \in engine.pending :
          engine' = [engine EXCEPT
                        !.pending = @ \ {yaml_file},
                        !.profiles = Register(@, load_profile(yaml_file, engine.profiles))]
    /\ UNCHANGED <<extractor, profile, global_rules, tables_state, args, returned, pc>>

NextEngine == LoadProfileFile

SpecEngine == InitEngine /\ [][NextEngine]_vars
(***************************************************************************)
(* The scoring classifier of PageAnalyzer and VisualStructureAnalyzer.     *)
(*                                                                         *)
(* A catalogue is the list of the items of the dict, in their order of     *)
(* declaration.  A confidence is written in tenths: 3 is 0.3, 10 is 1.0.   *)
(***************************************************************************)
Pattern(table_type, keywords, headers, suggested) ==
    [table_type |-> table_type, keywords |-> keywords, headers |-> headers,
     extractor |-> suggested]

TABLE_PATTERNS ==
    << Pattern("protocols",
               <<"organization", "ieee", "standard", "protocol", "compliance">>,
               <<"organization", "standards">>, "protocols"),
       Pattern("poe_power",
               <<"poe", "power capacity", "802.3af", "802.3at", "quantity">>,
               <<"model", "power", "quantity">>, "poe_power"),
       Pattern("software",
               <<"software", "feature", "vlan", "routing", "multicast">>,
               <<"feature", "description", "specification">>, "software"),
       Pattern("performance",
               <<"entries", "mac address", "vlan table", "routing", "performance">>,
               <<"entries", "table", "capacity">>, "performance"),
       Pattern("hardware_multi",
               <<"port", "switching capacity", "feature", "model">>,
               <<"feature", "port", "model">>, "multi_model_hardware"),
       Pattern("hardware_single",
               <<"specification", "attribute", "value">>,
               <<"attribute", "value", "specification">>, "single_model_hardware") >>

\* the catalogue of the VisualStructureAnalyzer; its items name no extractor
TABLE_TYPE_FEATURES ==
    << Pattern("hardware_spec",
               <<"switching capacity", "forwarding", "dimension", "weight", "port">>,
               <<"feature", "attribute", "specification">>, NoneValue),
       Pattern("model_comparison",
               <<"model", "port", "interface">>,
               <<"model", "{7aef}{53e3}", "{578b}{53f7}">>, NoneValue),
       Pattern("software_features",
               <<"vlan", "routing", "multicast", "security">>,
               <<"feature", "description">>, NoneValue),
       Pattern("performance_metrics",
               <<"entries", "table", "mac", "vlan", "routing">>,
               <<"entries", "capacity", "performance">>, NoneValue),
       Pattern("poe_power",
               <<"poe", "power", "watt", "802.3">>,
               <<"model", "power", "quantity">>, NoneValue),
       Pattern("protocols",
               <<"ieee", "rfc", "standard", "protocol">>,
               <<"organization", "standard", "protocol">>, NoneValue) >>

\* "for x in terms: if x in text: score += weight", from term n on
RECURSIVE ScoreTerms(_, _, _, _, _)
ScoreTerms(score, terms, text, weight, n) ==
    IF n > Len(terms) THEN score
    ELSE ScoreTerms(IF Contains(text, terms[n]) THEN score + weight ELSE score,
                    terms, text, weight, n + 1)

\* the score of one item of the catalogue
PatternScore(pattern, text_lower, header_str) ==
    ScoreTerms(ScoreTerms(0, pattern.keywords, text_lower, 2, 1),
               pattern.headers, header_str, 3, 1)

\* scores, as the list of the scores of the items
TableScores(catalogue, text_lower, header_str) ==
    [n \in 1..Len(catalogue) |-> PatternScore(catalogue[n], text_lower, header_str)]

\* a variant of BestType that returns the last item of maximal score
BestTypeLast(scores) ==
    CHOOSE n \in 1..Len(scores) :
        /\ \A m \in 1..Len(scores) : scores[m] <= scores[n]
        /\ \A m \in (n + 1)..Len(scores) : scores[m] < scores[n]

\* max(scores, key=scores.get): the first item of maximal score
BestType(scores) ==
    CHOOSE n \in 1..Len(scores) :
        /\ \A m \in 1..Len(scores) : scores[m] <= scores[n]
        /\ \A m \in 1..(n - 1) : scores[m] < scores[n]

\* min(best_score / 10, 1.0), in tenths
Confidence(best_score) == IF best_score < 10 THEN best_score ELSE 10

\* "if scores:" and what follows it
BestOf(catalogue, scores) ==
    IF Len(scores) > 0
    THEN [table_type |-> catalogue[BestType(scores)].table_type,
          extractor |-> catalogue[BestType(scores)].extractor,
          confidence |-> Confidence(scores[BestType(scores)])]
    ELSE [table_type |-> "unknown", extractor |-> "generic", confidence |-> 3]

\* ' '.join(h.lower() for h in headers)
HeaderStr(headers) == join(" ", [n \in 1..Len(headers) |-> lower(headers[n])])

\* PageAnalyzer._detect_table_type: (best_type, extractor, confidence)
analyzer_detect_table_type(text, headers) ==
    BestOf(TABLE_PATTERNS, TableScores(TABLE_PATTERNS, lower(text), HeaderStr(headers)))

\* VisualStructureAnalyzer._detect_table_type: (best_type, confidence)
visual_detect_table_type(headers, text) ==
    [k \in {"table_type", "confidence"} |->
        BestOf(TABLE_TYPE_FEATURES,
               TableScores(TABLE_TYPE_FEATURES, lower(text), HeaderStr(headers)))[k]]

\* the texts and headers the classifiers are called with
ClassifyTexts ==
    {"", "Overview", "Weight", "VLAN Routing", "Switching Capacity",
     "MAC address entries", "VLAN routing MAC address entries",
     "Software feature", "Port Model", "IEEE 802.3at PoE",
     "Organization IEEE standard protocol compliance",
     "PoE power capacity 802.3af 802.3at quantity",
     "Organization IEEE 802.3af 802.3at PoE power capacity quantity"}

ClassifyHeaders ==
    {<< >>, <<"Item", "Notes">>, <<"Organization", "Standards">>,
     <<"Model", "Power", "Quantity">>, <<"Feature", "Description">>,
     <<"Feature", "Port", "Model">>}

ClassifyInputs ==
    {[analyzer |-> a, text |-> t, headers |-> h] :
        a \in {"PageAnalyzer", "VisualStructureAnalyzer"},
        t \in ClassifyTexts,
        h \in ClassifyHeaders}

InitClassify == Call(ClassifyInputs)

AnalyzerDetectTableType ==
    /\ pc = "call"
    /\ args.analyzer = "PageAnalyzer"
    /\ Return(analyzer_detect_table_type(args.text, args.headers))

VisualDetectTableType ==
    /\ pc = "call"
    /\ args.analyzer = "VisualStructureAnalyzer"
    /\ Return(visual_detect_table_type(args.headers, args.text))

NextClassify == AnalyzerDetectTableType \/ VisualDetectTableType

SpecClassify == InitClassify /\ [][NextClassify]_vars
(***************************************************************************)
(* A software table and a performance table of one page: their fragments   *)
(* and the series-level holding area after both (lines 48-57).             *)
(***************************************************************************)
\* second-column headers
SeriesHeaders ==
    {"S5130S-EI Series Switches", "S5130S-EI Series", "S5130S-EI Series Performance",
     "S5130", "S5130 Performance", "Series", "Series Performance", "Performance",
     "Performance Performance", "Specification", "Value", "switches"}

SeriesInputs ==
    {[software_col |-> s, performance_col |-> p, first |-> f] :
        s \in SeriesHeaders, p \in SeriesHeaders, f \in {"software", "performance"}}

\* the rows of a software table and of a performance table with that header
SoftwareTableRows(value_col) ==
    << ("Feature" :> "VLAN") @@ (value_col :> "Port-based VLAN"),
       ("Feature" :> "Routing") @@ (value_col :> "Static routing") >>

PerformanceTableRows(value_col) ==
    << ("Feature" :> "MAC address entries") @@ (value_col :> "32K"),
       ("Feature" :> "ARP entries") @@ (value_col :> "8K") >>

\* the fragments of the two tables in the order of the page, merged one
\* after the other
MergedFragments(fragments) ==
    MergeTable(MergeTable([all_data |-> ODEmpty, series_data |-> ODEmpty], fragments[1], 1),
               fragments[2], 1)

SeriesFragments(software, performance, first) ==
    [software |-> software, performance |-> performance,
     merged |-> MergedFragments(IF first = "software" THEN <<software, performance>>
                                ELSE <<performance, software>>)]

InitSeries == Call(SeriesInputs)

ExtractSeriesTables ==
    /\ pc = "call"
    /\ Return(SeriesFragments(
                extract_software_table(<<"Feature", args.software_col>>,
                                       SoftwareTableRows(args.software_col)),
                extract_performance_table(<<"Feature", args.performance_col>>,
                                          PerformanceTableRows(args.performance_col)),
                args.first))

NextSeries == ExtractSeriesTables

SpecSeries == InitSeries /\ [][NextSeries]_vars
(***************************************************************************)
(* The post-processing of the entries of all_data (extract_all_tables,     *)
(* lines 102-127; _apply_post_processing), applied and applied again.      *)
(***************************************************************************)
\* the dicts that give each key of the domain one of its values, or leave
\* it out
RECURSIVE DictsOver(_)
DictsOver(values) ==
    IF DOMAIN values = {} THEN {EmptyDict}
    ELSE LET k == CHOOSE x \in DOMAIN values : TRUE
             rest == DictsOver([x \in (DOMAIN values) \ {k} |-> values[x]])
         IN  rest \cup {DictSet(d, k, v) : d \in rest, v \in values[k]}

\* entries before the post-processing: the legacy and the split attributes,
\* the attributes they are folded into, and another attribute
SpecsInputs ==
    {DictSet(d, K_SwitchingCapacity, Str("598 Gbps")) :
        d \in DictsOver((K_1G :> {Num(24)}) @@ (K_1000BaseT :> {Num(48)})
                        @@ (K_PoePower :> {Str("740W")})
                        @@ (K_PoePowerAC :> {Num(370), Str("370")})
                        @@ (K_PoePowerDC :> {Num(150)}))}

PostProcessInputs ==
    {[model_name |-> m, specs |-> s] : m \in {"S5130S-28P-EI", "S12508"}, s \in SpecsInputs}

InitPostProcess ==
    /\ extractor \in {"direct", "universal"}
    /\ profile = default_profile
    /\ global_rules = NoRules
    /\ page = [url |-> "", headings |-> << >>, tables |-> << >>]
    /\ index = 1
    /\ table_data = NoneTable
    /\ args \in PostProcessInputs
    /\ all_data = ODPut(ODEmpty, args.model_name, args.specs)
    /\ series_data = ODEmpty
    /\ result = << >>
    /\ returned = NoneValue
    /\ engine = Loaded
    /\ pc = "call"

\* the post-processing of the direct extractor, once and once more
PostProcessing ==
    /\ pc \in {"call", "processed"}
    /\ extractor = "direct"
    /\ all_data' = PostProcessAll(all_data)
    /\ pc' = IF pc = "call" THEN "processed" ELSE "returned"
    /\ UNCHANGED <<extractor, profile, global_rules, page, index, table_data, series_data,
                   result, args, returned, engine>>

\* and that of the universal extractor
ApplyPostProcessing ==
    /\ pc \in {"call", "processed"}
    /\ extractor = "universal"
    /\ all_data' = apply_post_processing(all_data)
    /\ pc' = IF pc = "call" THEN "processed" ELSE "returned"
    /\ UNCHANGED <<extractor, profile, global_rules, page, index, table_data, series_data,
                   result, args, returned, engine>>

NextPostProcess == PostProcessing \/ ApplyPostProcessing

SpecPostProcess == InitPostProcess /\ [][NextPostProcess]_vars
(***************************************************************************)
(* Pages whose tables produce the same attributes of the same models.      *)
(***************************************************************************)
\* a hardware table with the MAC address table of each model
MacHardwareTable ==
    Padded("thead_tbody",
           << <<Th("Feature"), Th("S5130S-28P-EI"), Th("S5130S-52P-EI")>>,
              <<Cell("Switching Capacity"), Cell("598 Gbps"), Cell("670 Gbps")>>,
              <<Cell("MAC{5730}{5740}{8868}"), Cell("16K"), Cell("32K")>> >>,
           MinTableText)

\* a later revision of it, with the second model only in part
RevisedHardwareTable ==
    Padded("thead",
           << <<Th("Feature"), Th("S5130S-28P-EI"), Th("S5130S-52P-EI")>>,
              <<Cell("Switching Capacity"), Cell("600 Gbps"), Cell("-")>>,
              <<Cell("MAC{5730}{5740}{8868}"), Cell("64K"), Cell("64K")>> >>,
           MinTableText)

\* the performance table of the series
PerformanceTable ==
    Padded("plain",
           << <<Th("Item"), Th("S5130S-EI Series Switches")>>,
              <<Cell("MAC address entries"), Cell("8K")>>,
              <<Cell("ARP entries"), Cell("4K")>> >>,
           MinTableText)

OrderedPages ==
    {[url |-> "https://www.h3c.com/en/switches", headings |-> << >>, tables |-> tables] :
        tables \in SeqsUpTo({MacHardwareTable, RevisedHardwareTable, PerformanceTable},
                            MaxTables)}

\* the extraction of one of the pages by an extractor as in Init
InitPages(pages) ==
    /\ extractor \in {"direct", "universal"}
    /\ \E c \in Configurations :
          /\ profile = c.profile
          /\ global_rules = c.global_rules
          /\ extractor = "direct" => c.profile = default_profile
    /\ page \in pages
    /\ index = 1
    /\ table_data = NoneTable
    /\ all_data = ODEmpty
    /\ series_data = ODEmpty
    /\ result = << >>
    /\ args = << >>
    /\ returned = NoneValue
    /\ engine = Loaded
    /\ pc = "tables"

InitOrdered == InitPages(OrderedPages)

SpecOrdered == InitOrdered /\ [][Next]_vars
(***************************************************************************)
(* Pages of tables that yield no fragment.                                 *)
(***************************************************************************)
\* a table element without rows, and tables of a header row only
EmptyTable == Padded("plain", << >>, MinTableText)
HeaderOnlyTable == Padded("thead", <<HardwareRows[1]>>, MinTableText)
HeaderInBodyTable == Padded("tbody", <<HardwareRows[1]>>, MinTableText)

SkippedPages ==
    {[url |-> "https://www.h3c.com/en/switches", headings |-> headings, tables |-> tables] :
        headings \in {<< >>, <<"Flexible networking">>},
        tables \in SeqsUpTo({ShortHardwareTable, NavigationTable, EmptyTable,
                             HeaderOnlyTable, HeaderInBodyTable, HardwareTable},
                            MaxTables)}

InitSkipped == InitPages(SkippedPages)

SpecSkipped == InitSkipped /\ [][Next]_vars
(***************************************************************************)
(* Two pages extracted one after the other by the same extractor.          *)
(*                                                                         *)
(* args holds the pages the extractor has extracted before the current     *)
(* one.  A DirectTableExtractor keeps no data between calls: all_data and  *)
(* series_data are locals of extract_all_tables.  A UniversalExtractor     *)
(* keeps self.extracted_data, which __init__ sets to {} and extract never  *)
(* resets, and self.profile_name, which extract sets only when it is None; *)
(* series_data is a local of extract.                                      *)
(***************************************************************************)
ReusePages ==
    {[url |-> url, headings |-> << >>, tables |-> tables] :
        url \in {"https://www.h3c.com/en/switches"},
        tables \in SeqsUpTo({HardwareTable, UpgradedHardwareTable, ProtocolsTable},
                            MaxTables)}

InitReuse == InitPages(ReusePages)

\* the caller passes another page to the extractor that has returned
ExtractNext ==
    /\ pc = "done"
    /\ args = << >>
    /\ \E next_page \in ReusePages : page' = next_page
    /\ index' = 1
    /\ table_data' = NoneTable
    /\ all_data' = IF extractor = "direct" THEN ODEmpty ELSE all_data
    /\ series_data' = ODEmpty
    /\ args' = <<page>>
    /\ pc' = "tables"
    /\ UNCHANGED <<extractor, profile, global_rules, result, returned, engine>>

NextReuse == Next \/ ExtractNext

SpecReuse == InitReuse /\ [][NextReuse]_vars
(***************************************************************************)
(* DirectTableExtractor._extract_multi_model_table on tables of one row    *)
(* and two model columns.                                                  *)
(***************************************************************************)
MultiModelHeaders == <<"Feature", "S5130S-28P-EI", "S5130S-52P-EI">>

MultiModelFeatures ==
    {"Console port", "USB port", "SFP Ports", "Switching Capacity", "Dimensions", ""}

MultiModelValues == {"1", "4", "598 Gbps", "Not supported", "-", "/", ""}

MultiModelInputs ==
    {[headers |-> MultiModelHeaders,
      rows |-> <<(MultiModelHeaders[1] :> f) @@ (MultiModelHeaders[2] :> v)
                 @@ (MultiModelHeaders[3] :> w)>>] :
        f \in MultiModelFeatures, v \in MultiModelValues, w \in MultiModelValues}

InitMultiModel == Call(MultiModelInputs)

ExtractMultiModelTable ==
    /\ pc = "call"
    /\ Return(extract_multi_model_table(args.headers, args.rows))

NextMultiModel == ExtractMultiModelTable

SpecMultiModel == InitMultiModel /\ [][NextMultiModel]_vars
(***************************************************************************)
(* Pages of tables of every kind.                                          *)
(***************************************************************************)
\* a table of one model: two columns, none of them a model column
GenericTable ==
    Padded("thead_tbody",
           << <<Th("Item"), Th("Specification")>>,
              <<Cell("Switching Capacity"), Cell("598 Gbps")>>,
              <<Cell("Weight"), Cell("3 kg")>> >>,
           MinTableText)

\* the software table of a series, and one whose second header names no
\* series
SeriesSoftwareTable ==
    Padded("thead",
           << <<Th("Feature"), Th("S5130S-EI Series Switches")>>,
              <<Cell("VLAN"), Cell("Port-based VLAN")>> >>,
           MinTableText)

SupportSoftwareTable ==
    Padded("thead",
           << <<Th("Feature"), Th("Support")>>,
              <<Cell("VLAN"), Cell("Port-based VLAN")>> >>,
           MinTableText)

KindTables ==
    {HardwareTable, GenericTable, SeriesSoftwareTable, SupportSoftwareTable,
     PerformanceTable, ProtocolsTable}

KindPages ==
    {[url |-> "https://www.h3c.com/en/switches", headings |-> << >>, tables |-> tables] :
        tables \in SeqsUpTo(KindTables, MaxTables)}

InitKinds == InitPages(KindPages)

SpecKinds == InitKinds /\ [][Next]_vars
(***************************************************************************)
(* Rule lists with rules of equal priority, disabled rules and rules of    *)
(* another action.                                                         *)
(***************************************************************************)
DetectPerformance ==
    ExtractionRule("detect_performance", "poe", "table_detection",
                   "use_extractor", ("extractor" :> "performance"), 100, TRUE)
DetectSkip ==
    ExtractionRule("detect_skip", "standards", "table_detection",
                   "skip", EmptyDict, 150, TRUE)
DetectDisabled ==
    ExtractionRule("detect_disabled", "standards", "table_detection",
                   "use_extractor", ("extractor" :> "software"), 200, FALSE)

PriorityDetectionRules ==
    {DetectStandards, DetectPoe, DetectPerformance, DetectSkip, DetectDisabled}

MappingPorts ==
    ExtractionRule("mapping_ports", "poe", "param_mapping", "map_to",
                   ("target" :> "Ports"), 100, TRUE)
MappingDisabled ==
    ExtractionRule("mapping_disabled", "power", "param_mapping", "map_to",
                   ("target" :> "Disabled"), 200, FALSE)

PriorityMappingRules ==
    {MappingPower, MappingPoe, MappingSkip, MappingPorts, MappingDisabled}

InitPriority == InitRuleLists(PriorityDetectionRules, PriorityMappingRules)

SpecPriority == InitPriority /\ [][NextRules]_vars
(***************************************************************************)
(* DirectTableExtractor._extract_poe_table on the rows of a POE table, some *)
(* of them without a model value.                                          *)
(***************************************************************************)
MaxRows == 3

PoeHeaders == <<"Model", "PoE power capacity", "Quantity of PoE ports">>

PoeRowSet ==
    {(PoeHeaders[1] :> model) @@ (PoeHeaders[2] :> cells[1]) @@ (PoeHeaders[3] :> cells[2]) :
        model \in {"", "M1", " M2 "},
        cells \in {<<"AC:370", "15.4W (802.3af): 8">>, <<"740", "30W (802.3at): 4">>}}

PoeRowInputs == {[headers |-> PoeHeaders, rows |-> rows] : rows \in SeqsUpTo(PoeRowSet, MaxRows)}

InitPoeRows == Call(PoeRowInputs)

ExtractPoeRows ==
    /\ pc = "call"
    /\ Return(extract_poe_table(args.headers, args.rows))

NextPoeRows == ExtractPoeRows

SpecPoeRows == InitPoeRows /\ [][NextPoeRows]_vars
(***************************************************************************)
(* DirectTableExtractor._extract_protocols_table on the rows of a          *)
(* protocols table, some of them with a standard in the first column.      *)
(***************************************************************************)
ProtocolsHeaders == <<"Organization", "Standards and protocols">>

ProtocolsRowSet ==
    {(ProtocolsHeaders[1] :> cells[1]) @@ (ProtocolsHeaders[2] :> cells[2]) :
        cells \in {<<"IEEE", "802.3af">>, <<" IETF ", "RFC 791">>, <<"ITU", "">>,
                   <<"", "802.3at">>, <<"802.1Q", "">>, <<"RFC 1213", "SNMP">>}}

ProtocolsRowInputs ==
    {[headers |-> ProtocolsHeaders, rows |-> rows] :
        rows \in SeqsUpTo(ProtocolsRowSet, MaxRows)}

InitProtocolsRows == Call(ProtocolsRowInputs)

ExtractProtocolsRows ==
    /\ pc = "call"
    /\ Return(extract_protocols_table(args.headers, args.rows))

NextProtocolsRows == ExtractProtocolsRows

SpecProtocolsRows == InitProtocolsRows /\ [][NextProtocolsRows]_vars
(***************************************************************************)
(* RuleEngine._save_profile and RuleEngine.update_rule.                    *)
(*                                                                         *)
(* A profile of the engine has the four rule lists of the dataclass.  The  *)
(* file of a profile is the dict that _save_profile dumps; the files of    *)
(* the directory are kept by the name of the profile, as the path          *)
(* <name>.yaml is.                                                         *)
(***************************************************************************)
\* the attributes of a ProductProfile that getattr(profile, rule_type +
\* "_rules") finds
RuleListAttributes ==
    {"table_detection_rules", "param_mapping_rules", "value_extraction_rules",
     "post_processing_rules"}

\* a ProductProfile with its value_extraction_rules and post_processing_rules,
\* which are empty after loading
WithAllRuleLists(p) ==
    p @@ [value_extraction_rules |-> << >>, post_processing_rules |-> << >>]

\* the dict of one rule in _save_profile: 'enabled' is not among its keys
SavedRule(r) ==
    [name |-> r.name, pattern |-> r.pattern, rule_type |-> r.rule_type,
     action |-> r.action, params |-> r.params, priority |-> r.priority]

SavedRules(rules) == [n \in 1..Len(rules) |-> SavedRule(rules[n])]

\* data of _save_profile, lines 193-225
save_profile(p) ==
    [name |-> p.name, parent_profile |-> p.parent_profile,
     skip_patterns |-> p.skip_patterns,
     table_detection_rules |-> SavedRules(p.table_detection_rules),
     param_mapping_rules |-> SavedRules(p.param_mapping_rules)]

\* the directory after yaml.dump to <name>.yaml
WriteFile(profile_dir, data) == {f \in profile_dir : f.name # data.name} \cup {data}

\* existing_idx: the first rule of the list of that name, 0 for None
ExistingIdx(rule_list, rule) ==
    Leftmost({n \in 1..Len(rule_list) : rule_list[n].name = rule.name})

\* a variant of PutRule that appends the rule in every case
PutRuleAppending(rule_list, rule) == Append(rule_list, rule)

\* lines 241-246: the rule replaces that of its name, or is appended
PutRule(rule_list, rule) ==
    IF ExistingIdx(rule_list, rule) # 0
    THEN [rule_list EXCEPT ![ExistingIdx(rule_list, rule)] = rule]
    ELSE Append(rule_list, rule)

\* the profile after lines 235-246: getattr returns a list of the profile, or
\* the default [], which is no list of the profile
WithRule(p, rule_type, rule) ==
    IF (rule_type \o "_rules") \in RuleListAttributes
    THEN [p EXCEPT ![rule_type \o "_rules"] = PutRule(@, rule)]
    ELSE p

\* RuleEngine.update_rule on self.profiles and the files of the directory
update_rule(profiles, profile_dir, profile_name, rule_type, rule) ==
    IF profile_name \notin DOMAIN profiles
    THEN [raised |-> "ValueError", profiles |-> profiles, profile_dir |-> profile_dir]
    ELSE [raised |-> NoneValue,
          profiles |-> [profiles EXCEPT
                           ![profile_name] = WithRule(@, rule_type, rule)],
          profile_dir |-> WriteFile(profile_dir,
                                    save_profile(WithRule(profiles[profile_name],
                                                          rule_type, rule)))]

MaxUpdates == 2

\* the profiles of the engine
UpdateProfiles ==
    ("base" :> WithAllRuleLists(ProductProfile("base", NoneValue,
                                    <<ParentDetectPoe, ParentDetectEntries>>,
                                    <<ParentMappingPoe>>, << >>)))
    @@ ("h3c_switch" :> WithAllRuleLists(ProductProfile("h3c_switch", NoneValue,
                                    <<ParentDetectEntries, ParentDetectPoe>>,
                                    << >>, <<"warranty">>)))

\* the calls: the name of a profile or of none, the name of a rule list or
\* of none, and a rule of a new name or of a name the lists have
UpdateCalls ==
    {[profile_name |-> p, rule_type |-> t, rule |-> r] :
        p \in {"h3c_switch", "missing"},
        t \in {"table_detection", "param_mapping", "value_extraction", "table_detect"},
        r \in {ChildDetectPoe, ChildDetectStandards, ChildMappingPoe}}

\* args is the list of the calls made
InitUpdate ==
    /\ extractor = "direct"
    /\ profile = default_profile
    /\ global_rules = NoRules
    /\ NoPage
    /\ args = << >>
    /\ returned = NoneValue
    /\ engine = [profile_dir |-> {save_profile(UpdateProfiles[n]) : n \in DOMAIN UpdateProfiles},
                 pending |-> {}, profiles |-> UpdateProfiles]
    /\ pc = "ready"

UpdateRule ==
    /\ pc = "ready"
    /\ Len(args) < MaxUpdates
    /\ \E call \in UpdateCalls :
          LET after == update_rule(engine.profiles, engine.profile_dir,
                                   call.profile_name, call.rule_type, call.rule)
          IN  /\ engine' = [engine EXCEPT !.profiles = after.profiles,
                                          !.profile_dir = after.profile_dir]
              /\ returned' = after.raised
              /\ args' = Append(args, call)
    /\ UNCHANGED <<extractor, profile, global_rules, tables_state, pc>>

NextUpdate == UpdateRule

SpecUpdate == InitUpdate /\ [][NextUpdate]_vars
(***************************************************************************)
(* A profile saved by _save_profile and loaded again by _load_profile.     *)
(***************************************************************************)
\* rule.get(key, default) for a key of the dict of a rule
RuleField(rule, key, default) == IF key \in DOMAIN rule THEN rule[key] ELSE default

\* ExtractionRule(**rule): params, priority and enabled have the defaults of
\* the dataclass
RuleFromDict(rule) ==
    ExtractionRule(rule.name, rule.pattern, rule.rule_type, rule.action,
                   RuleField(rule, "params", EmptyDict),
                   RuleField(rule, "priority", 100),
                   RuleField(rule, "enabled", TRUE))

RulesFromDicts(rules) == [n \in 1..Len(rules) |-> RuleFromDict(rules[n])]

\* _load_profile, lines 117-135: the profile of the data of a file
ProfileFromData(data) ==
    ProductProfile(data.name, data.parent_profile,
                   RulesFromDicts(data.table_detection_rules),
                   RulesFromDicts(data.param_mapping_rules),
                   data.skip_patterns)

\* _load_profile on the data of a file, with self.profiles
load_profile_data(data, profiles) == load_profile(ProfileFromData(data), profiles)

DisabledMappingWeight ==
    ExtractionRule("mapping_weight", "weight", "param_mapping", "skip",
                   EmptyDict, 30, FALSE)

\* profiles without parent
SavedProfiles ==
    {ProductProfile("h3c_switch", NoneValue, detection, mapping, skips) :
        detection \in ShortRuleLists({ParentDetectPoe, ChildDetectPoe, ParentDetectEntries}),
        mapping \in ShortRuleLists({ParentMappingPoe, ChildMappingFan, DisabledMappingWeight}),
        skips \in {<< >>, <<"warranty", "certification">>}}

InitRoundTrip ==
    /\ extractor = "direct"
    /\ profile \in SavedProfiles
    /\ global_rules = NoRules
    /\ NoPage
    /\ args = << >>
    /\ returned = NoneValue
    /\ engine = Loaded
    /\ pc = "call"

\* add_profile(profile): the profile is registered and its file is written
AddProfile ==
    /\ pc = "call"
    /\ engine' = [engine EXCEPT !.profiles = Register(@, profile),
                                !.profile_dir = WriteFile(@, save_profile(profile))]
    /\ pc' = "saved"
    /\ UNCHANGED <<extractor, profile, global_rules, tables_state, args, returned>>

\* a RuleEngine constructed afterwards loads the file
LoadSaved ==
    /\ pc = "saved"
    /\ \E data \in engine.profile_dir : Return(load_profile_data(data, << >>))

NextRoundTrip == AddProfile \/ LoadSaved

SpecRoundTrip == InitRoundTrip /\ [][NextRoundTrip]_vars
(***************************************************************************)
(* get_rule_engine called by several threads.                              *)
(*                                                                         *)
(* engine.default is the global _default_engine and engine.constructed the *)
(* RuleEngine instances constructed so far, an instance being its number   *)
(* and its config_dir.  args gives for every thread its position in the    *)
(* function, its config_dir and the instance it has constructed; returned  *)
(* gives what the thread's call returned.  A thread may be switched out    *)
(* between any two of: the test of line 260, the construction, the         *)
(* assignment to the global, and the read of the global of line 262.       *)
(* args.overlapped records whether a call began while another was under    *)
(* way.                                                                    *)
(***************************************************************************)
MaxThreads == 2

Threads == 1..MaxThreads

ConfigDirs == {"config", "other_config"}

\* None in the place of a RuleEngine
NoEngine == [number |-> 0, config_dir |-> ""]

\* a variant of NeedsEngine for which the global is never set
NeedsEngineAlways(default_engine) == TRUE

\* "if _default_engine is None"
NeedsEngine(default_engine) == default_engine = NoEngine

InitThreads ==
    /\ extractor = "universal"
    /\ profile = default_profile
    /\ global_rules = NoRules
    /\ NoPage
    /\ \E dirs \in [Threads -> ConfigDirs] :
          args = [at |-> [t \in Threads |-> "idle"], config_dir |-> dirs,
                  made |-> [t \in Threads |-> NoEngine], overlapped |-> FALSE]
    /\ returned = [t \in Threads |-> NoEngine]
    /\ engine = [default |-> NoEngine, constructed |-> {}]
    /\ pc = "threads"

Unchanged29 == UNCHANGED <<extractor, profile, global_rules, tables_state, pc>>

\* line 260: the test of the global
TestDefaultEngine ==
    /\ pc = "threads"
    /\ \E t \in Threads :
          /\ args.at[t] = "idle"
          /\ args' = [args EXCEPT
                        !.at[t] = IF NeedsEngine(engine.default) THEN "construct" ELSE "return",
                        !.overlapped = @ \/ \E u \in Threads \ {t} :
                                                args.at[u] \notin {"idle", "done"}]
    /\ UNCHANGED <<engine, returned>>
    /\ Unchanged29

\* line 261, right-hand side: RuleEngine(config_dir)
ConstructEngine ==
    /\ pc = "threads"
    /\ \E t \in Threads :
          /\ args.at[t] = "construct"
          /\ LET instance == [number |-> Cardinality(engine.constructed) + 1,
                              config_dir |-> args.config_dir[t]]
             IN  /\ engine' = [engine EXCEPT !.constructed = @ \cup {instance}]
                 /\ args' = [args EXCEPT !.at[t] = "assign", !.made[t] = instance]
    /\ UNCHANGED returned
    /\ Unchanged29

\* line 261: the assignment to the global
AssignDefaultEngine ==
    /\ pc = "threads"
    /\ \E t \in Threads :
          /\ args.at[t] = "assign"
          /\ engine' = [engine EXCEPT !.default = args.made[t]]
          /\ args' = [args EXCEPT !.at[t] = "return"]
    /\ UNCHANGED returned
    /\ Unchanged29

\* line 262: return _default_engine
ReturnDefaultEngine ==
    /\ pc = "threads"
    /\ \E t \in Threads :
          /\ args.at[t] = "return"
          /\ returned' = [returned EXCEPT ![t] = engine.default]
          /\ args' = [args EXCEPT !.at[t] = "done"]
    /\ UNCHANGED engine
    /\ Unchanged29

NextThreads ==
    TestDefaultEngine \/ ConstructEngine \/ AssignDefaultEngine \/ ReturnDefaultEngine

SpecThreads == InitThreads /\ [][NextThreads]_vars
(***************************************************************************)
(* Properties of extract_all_tables on a page (Spec).                      *)
(***************************************************************************)
\* the rows ["Switching Capacity", v1, v2] with non-empty values of a table
\* of at least MinTableText characters with the header row [Feature, M1, M2]
CapacityRows(table) ==
    IF /\ Len(TableText(table)) >= MinTableText
       /\ Len(table.rows) >= 2
       /\ Len(table.rows[1]) = 3
       /\ table.rows[1][1].text = "Feature"
       /\ IsModelHeader(table.rows[1][2].text)
       /\ IsModelHeader(table.rows[1][3].text)
    THEN {r \in 2..Len(table.rows) :
            /\ Len(table.rows[r]) = 3
            /\ table.rows[r][1].text = "Switching Capacity"
            /\ table.rows[r][2].text # "" /\ table.rows[r][3].text # ""}
    ELSE {}

HasCapacity(model, value) ==
    /\ model \in DOMAIN result
    /\ K_SwitchingCapacity \in DOMAIN result[model]
    /\ result[model][K_SwitchingCapacity] = Str(value)

\* the fragment of a table writes the switching capacity of the model
WritesCapacity(table, model) ==
    /\ model \in DOMAIN process_table(table).val
    /\ K_SwitchingCapacity \in DOMAIN process_table(table).val[model]

\* row r of table i is the last of the page to give the model a switching
\* capacity
LastCapacity(i, r, model) ==
    /\ \A q \in (r + 1)..Len(page.tables[i].rows) :
          normalize_param_name(page.tables[i].rows[q][1].text) # K_SwitchingCapacity
    /\ \A j \in (i + 1)..Len(page.tables) : ~WritesCapacity(page.tables[j], model)

RowspanTable(layout) ==
    BareTable(layout, PoeTableRows("M1", "DC:150", "30W (802.3at): 4", "rowspan"))

\* the one entry M1 with both powers and both port counts
BothRows ==
    [keys |-> <<"M1">>,
     val |-> ("M1" :> ((K_PoePowerAC :> Str("370")) @@ (K_PoePowerDC :> Str("150"))
                       @@ (K_PoeAf :> Num(8)) @@ (K_PoeAt :> Num(4))))]

\* C2: for the POE table whose model cell M1 spans two rows, so that the
\* second tr holds only the cells DC:150 and 30W (802.3at): 4, parsing the
\* table and running the POE extractor yields the one entity key M1 with the
\* AC and the DC power and the 802.3af and the 802.3at port count, and no
\* second entity key.
C2_RowspanOneEntry ==
    (pc = "returned" /\ \E layout \in {"thead_tbody", "thead", "plain"} :
                            args.table = RowspanTable(layout))
        => returned = BothRows

\* what the extractor returns for that table: the entry M1 of the first row
\* and an entry "DC:150" of the second
C2_RowspanTwoEntries ==
    /\ pc = "returned"
    /\ args.table = RowspanTable("plain")
    /\ returned.keys = <<"M1", "DC:150">>
    /\ returned.val["DC:150"] = (K_PoePower :> Str("30W (802.3at): 4"))

(***************************************************************************)
(* Properties of the merge of series data (Spec).                          *)
(***************************************************************************)
\* the model entry carries the protocols of the fragment keyed "Protocols"
HasProtocols(model) ==
    /\ K_Protocols \in DOMAIN result[model]
    /\ K_Protocols \in DOMAIN series_data.val["Protocols"]
    /\ result[model][K_Protocols] = series_data.val["Protocols"][K_Protocols]

\* C3: when the tables of a page yield at least one model entry and a fragment
\* keyed "Protocols", every model entry of the final result carries the
\* protocols of that fragment, for any model names and any order of the
\* tables.
C3_ProtocolsInEveryModel ==
    (pc = "done" /\ ODHas(series_data, "Protocols"))
        => \A model \in DOMAIN result : HasProtocols(model)

\* extract_all_tables has returned the models S1000-A and S1000-B of a page
\* with a protocols table, and neither carries the protocols
C3_ProtocolsMissing ==
    /\ pc = "done" /\ extractor = "direct"
    /\ page.tables = <<OtherHardwareTable, ProtocolsTable>>
    /\ ODHas(series_data, "Protocols")
    /\ DOMAIN result = {"S1000-A", "S1000-B"}
    /\ \A model \in DOMAIN result : K_Protocols \notin DOMAIN result[model]

(***************************************************************************)
(* Properties of the merge of a profile with its parent (SpecProfiles).    *)
(***************************************************************************)
\* the rules of a list that have the name
RulesNamed(rules, name) == SelectSeq(rules, LAMBDA r : r.name = name)

\* merged holds, of every name both lists declare, the child's rule alone,
\* and every rule of another name of the parent and of the child
ChildOverrides(own, inherited, merged) ==
    /\ \A name \in RuleNames(own) \cap RuleNames(inherited) :
          RulesNamed(merged, name) = RulesNamed(own, name)
    /\ \A name \in RuleNames(inherited) \ RuleNames(own) :
          RulesNamed(merged, name) = RulesNamed(inherited, name)
    /\ \A name \in RuleNames(own) \ RuleNames(inherited) :
          RulesNamed(merged, name) = RulesNamed(own, name)

\* C4: when a child profile is merged with its parent and both declare a rule
\* of the same name, in table_detection_rules or in param_mapping_rules, the
\* merged list holds exactly one rule of that name, the child's, and the
\* rules of other names of the parent and of the child are all present.
C4_ChildRuleReplacesParentRule ==
    (pc = "returned" /\ args.self.parent_profile = "base") =>
        /\ ChildOverrides(args.self.table_detection_rules,
                          args.profiles["base"].table_detection_rules,
                          returned.table_detection_rules)
        /\ ChildOverrides(args.self.param_mapping_rules,
                          args.profiles["base"].param_mapping_rules,
                          returned.param_mapping_rules)

\* the merged profile holds the parent's rule "mapping_poe" and has dropped
\* the child's
C4_ParentRuleKept ==
    /\ pc = "returned"
    /\ args.self.parent_profile = "base"
    /\ args.self.param_mapping_rules = <<ChildMappingPoe, ChildMappingFan>>
    /\ args.profiles["base"].param_mapping_rules = <<ParentMappingPoe, ParentMappingWeight>>
    /\ returned.param_mapping_rules = <<ParentMappingPoe, ParentMappingWeight, ChildMappingFan>>

(***************************************************************************)
(* Properties of the colspan expansion of _parse_table_structure           *)
(* (SpecTable).                                                            *)
(***************************************************************************)
\* the tables whose data row starts with a cell of colspan 3
SpanningTables == {t \in ColspanTables : t.rows[2][1].colspan = 3}

\* the record of the data row, the last row parsed
SpanningRow == returned.rows[Len(returned.rows)]

\* C5: for a data row of a table with at least three headers whose first cell
\* has colspan=3, the row record maps the headers of the columns 0, 1 and 2 to
\* the text of that cell, also when further cells follow the spanning cell.
C5_SpanningCellFillsThreeColumns ==
    (pc = "parsed" /\ args.table \in SpanningTables) =>
        /\ {"H1", "H2", "H3"} \subseteq DOMAIN SpanningRow
        /\ SpanningRow["H1"] = "A" /\ SpanningRow["H2"] = "A" /\ SpanningRow["H3"] = "A"

\* the cell B that follows the spanning cell A is written under the second
\* header, where the spanning cell had been written
C5_FollowingCellOverwrites ==
    /\ pc = "parsed"
    /\ args.table = BareTable("plain", << <<Th("H1"), Th("H2"), Th("H3"), Th("H4")>>,
                                          <<SpanCell("A", 3), Cell("B")>> >>)
    /\ SpanningRow = ("H1" :> "A") @@ ("H2" :> "B") @@ ("H3" :> "A")

(***************************************************************************)
(* Properties of the tables of less than MinTableText characters (Spec).   *)
(***************************************************************************)
IsSmall(table) == Len(TableText(table)) < MinTableText

\* the page without its small tables
WithoutSmallTables == [page EXCEPT !.tables = SelectSeq(@, LAMBDA t : ~IsSmall(t))]

\* what the extractor of the state returns for a page
Extracted(p) ==
    IF extractor = "direct" THEN extract_all_tables(p) ELSE extract(profile, global_rules, p)

\* the attributes that are read from the page as a whole, not from the
\* fragments of its tables
PageAttributes == {K_ModelDescription, K_SeriesFeatures}

\* a mapping without the attributes read from the page as a whole
TableAttributes(mapping) ==
    [model \in DOMAIN mapping |->
        [k \in (DOMAIN mapping[model]) \ PageAttributes |-> mapping[model][k]]]

\* C6 as stated: a table of less than 200 characters contributes nothing, no
\* entity key and no attribute of the final mapping originates from it: the
\* result is the result for the page without its small tables.
C6_NothingFromSmallTables ==
    pc = "done" => result = Extracted(WithoutSmallTables)

\* C6: a table whose stripped text is shorter than 200 characters yields no
\* fragment, whatever it contains, and the final mapping has the entity keys
\* of the page without its small tables and, but for the model description
\* and the series features, their attributes.
C6_NoFragmentFromSmallTables ==
    /\ (index > 1 /\ IsSmall(page.tables[index - 1])) => table_data = NoneTable
    /\ pc = "done" =>
          TableAttributes(result) = TableAttributes(Extracted(WithoutSmallTables))

\* a page with a hardware table one character short of MinTableText has been
\* extracted, and the models of that table are not in the result
C6_ShortTableSkipped ==
    /\ pc = "done"
    /\ page.tables = <<OtherHardwareTable, ShortHardwareTable>>
    /\ table_data = NoneTable
    /\ DOMAIN result = {"S1000-A", "S1000-B"}

(***************************************************************************)
(* Properties of the detection of the table type (SpecDetect).             *)
(***************************************************************************)
\* the text holds "organization" and "ieee", in any case
NamesOrganizationAndIEEE(text) ==
    Contains(lower(text), "organization") /\ Contains(lower(text), "ieee")

\* no enabled rule of the profile or of the global rules matches the text
NoDetectionRuleFires(text) ==
    /\ FirstRule(sorted_by_priority(profile.table_detection_rules), lower(text), FALSE) = 0
    /\ FirstRule(sorted_by_priority(global_rules.table_detection), lower(text), FALSE) = 0

\* C7: _detect_table_type and _fallback_table_detection return 'protocols' for
\* every text that holds "organization" and "ieee" in any case, also when the
\* text holds POE signals, and so never the POE type; so does
\* _detect_table_type_with_rules when no configured rule matches the text
\* and it comes to the fallback.
C7_ProtocolsBeforePoe ==
    (/\ pc = "returned"
     /\ NamesOrganizationAndIEEE(args.text)
     /\ (args.function = "_detect_table_type_with_rules" => NoDetectionRuleFires(args.text)))
        => returned = "protocols" /\ returned \notin {"poe", "poe_power"}

\* a text with "ORGANIZATION", "ieee 802.3at" and the POE quantity has been
\* detected as protocols by the direct extractor
C7_ProtocolsWithPoeSignals ==
    /\ pc = "returned"
    /\ args.function = "_detect_table_type"
    /\ args.text = "ORGANIZATION ieee 802.3at Quantity of PoE ports"
    /\ returned = "protocols"

(***************************************************************************)
(* Properties of _parse_port_description (SpecPorts).                      *)
(***************************************************************************)
\* the attributes of the port families, one of which the primary count goes to
PortFamilyKeys ==
    {K_SFP28, K_SFPPlus, K_QSFP28, K_QSFPPlus, K_SFP, K_MultiGiga, K_1000BaseT}

\* the description the parser reads: the value and the feature, lower-cased
PortText == lower(args.value \o " " \o args.feature)

\* the value starts with an integer
StartsWithCount == LeadingDigits(args.value) # ""

SetsSFPPlusOnly ==
    /\ K_SFPPlus \in DOMAIN returned
    /\ returned[K_SFPPlus] = Num(int(LeadingDigits(args.value)))
    /\ K_SFP \notin DOMAIN returned

PoeClassKeys == {K_PoeAf, K_PoeAt, K_Poe60, K_Poe90}

\* the phrases whose count is out of the range 1..48
RejectedPhrases ==
    {"15.4W (802.3af): 60", "15.4W (802.3af): 0", "30W (802.3at): 49",
     "60W: 100 (802.3bt)", "90W (802.3bt): 480"}

\* the attribute of the class a phrase is about
ClassKey(phrase) ==
    IF Contains(phrase, "802.3af") THEN K_PoeAf
    ELSE IF Contains(phrase, "802.3at") THEN K_PoeAt
    ELSE IF startswith(phrase, "60W") THEN K_Poe60
    ELSE K_Poe90

\* how often the text names the word
Occurrences(text, word) == Cardinality({i \in 1..Len(text) : StartsAt(text, i, word)})

\* the sequence without its element i
Without(s, i) == SubSeq(s, 1, i - 1) \o SubSeq(s, i + 1, Len(s))

\* the attribute k of a result of the parser, None when it is not set
CountOf(counts, k) == IF k \in DOMAIN counts THEN counts[k] ELSE NoneValue

\* C9: every value _parse_poe_ports writes for one of the four POE class
\* attributes is an integer in 1..48; a text with "15.4W (802.3af): 60" and no
\* other 802.3af phrase gives no 802.3af port count; and an out-of-range
\* capture of one class leaves the counts of the other classes what they are
\* without it.
C9_PoeCountsInRange ==
    pc = "returned" =>
        /\ DOMAIN returned \subseteq PoeClassKeys
        /\ \A k \in DOMAIN returned : returned[k] \in {Num(n) : n \in 1..48}
        /\ (Contains(args.text, "15.4W (802.3af): 60") /\ Occurrences(args.text, "802.3af") = 1)
              => K_PoeAf \notin DOMAIN returned
        /\ \A i \in 1..Len(args.phrases) :
              args.phrases[i] \in RejectedPhrases =>
                 \A k \in PoeClassKeys \ {ClassKey(args.phrases[i])} :
                    CountOf(returned, k)
                      = CountOf(parse_poe_ports(join(", ", Without(args.phrases, i))), k)

\* the 802.3af count 60 has been rejected and the 802.3at count 4 written
C9_RejectedAndWritten ==
    /\ pc = "returned"
    /\ args.text = "15.4W (802.3af): 60, 30W (802.3at): 4"
    /\ returned = (K_PoeAt :> Num(4))

(***************************************************************************)
(* Properties of the normalization of parameter names (SpecNormalize).     *)
(***************************************************************************)
\* the resolution in three layers: the profile's map_to rules, the global
\* map_to rules, the built-in table
ThreeLayers(param) ==
    ApplyRules(sorted_by_priority(profile.param_mapping_rules), lower(param), TRUE,
               "target", NoneValue,
               ApplyRules(sorted_by_priority(global_rules.param_mapping), lower(param), TRUE,
                          "target", NoneValue,
                          normalize_param_name(param)))

\* C10: the normalization of a parameter name resolves in three layers: an
\* enabled map_to rule of the profile that matches, else an enabled global
\* map_to rule that matches, else the built-in table; a name yields no mapping
\* only when no layer matches.
C10_ThreeLayerResolution ==
    pc = "returned" => returned = ThreeLayers(args.param)

\* with rules that do not match it, "Switching Capacity" has been normalized
\* to None by the UniversalExtractor
C10_BuiltInTableNotConsulted ==
    /\ pc = "returned"
    /\ extractor = "universal"
    /\ profile = SwitchProfile /\ global_rules = GlobalRules
    /\ args.param = "Switching Capacity"
    /\ normalize_param_name(args.param) = K_SwitchingCapacity
    /\ returned = NoneValue


\* C11: a rule whose pattern is not a valid regex is skipped: detection and
\* normalization return what they return for the same profile and global
\* rule lists without the rules that do not compile
C11_BrokenRulesSkipped ==
    pc = "returned" =>
        returned =
            IF args.function = "_normalize_param_name"
            THEN universal_normalize_param_name(CompilingProfile(profile),
                                                CompilingRules(global_rules), args.param)
            ELSE detect_table_type_with_rules(CompilingProfile(profile),
                                              CompilingRules(global_rules), args.text)

\* an enabled rule of the profile that does not compile is tried before a
\* rule that fires, and the result is that of the rule that fires
C11_BrokenRuleBeforeFiring ==
    /\ pc = "returned"
    /\ \/ /\ args.function = "_detect_table_type_with_rules"
          /\ profile.table_detection_rules = <<DetectPoe, DetectBroken(200, TRUE)>>
          /\ args.text = "PoE power capacity standards("
          /\ returned = "poe_power"
       \/ /\ args.function = "_normalize_param_name"
          /\ profile.param_mapping_rules = <<MappingBroken(200, TRUE)>>
          /\ global_rules.param_mapping = <<MappingPoe, MappingPower>>
          /\ args.param = "PoE power(W)"
          /\ returned = "Power"

\* every file that has been loaded is registered, whatever the order
NoProfileDropped ==
    \A yaml_file \in engine.profile_dir \ engine.pending :
        yaml_file.name \in DOMAIN engine.profiles

\* the file loaded by a step, when its parent is not loaded at that step, is
\* registered as it is declared
UnresolvedParentInheritsNothing ==
    \A yaml_file \in engine.pending :
        (yaml_file \notin engine'.pending
         /\ yaml_file.parent_profile \notin DOMAIN engine.profiles)
        => /\ yaml_file.name \in DOMAIN engine'.profiles
           /\ engine'.profiles[yaml_file.name] = yaml_file

\* C12: a profile file whose parent_profile names a profile that is not
\* loaded when the file is loaded (absent from the directory, or loaded
\* later) is registered with exactly the rules it declares, and no loaded
\* file is missing from the registered profiles, in any order of loading
C12_UnresolvedParentTolerated ==
    []NoProfileDropped /\ [][UnresolvedParentInheritsNothing]_vars

\* all files are loaded; the child was loaded before its parent and holds
\* its own rules only, and the profile of the missing parent is registered
C12_ChildLoadedBeforeParent ==
    /\ engine.pending = {}
    /\ engine.profile_dir = ProfileFiles
    /\ engine.profiles["h3c_switch"] = SwitchFile
    /\ engine.profiles["base"] = BaseFile
    /\ engine.profiles["h3c_router"] = RouterFile

\* the catalogue of the analyzer called
CatalogueOf(analyzer) ==
    IF analyzer = "PageAnalyzer" THEN TABLE_PATTERNS ELSE TABLE_TYPE_FEATURES

\* the number of the terms of the list that occur in the text
Occurring(terms, text) == Cardinality({n \in 1..Len(terms) : Contains(text, terms[n])})

\* 2 x keywords in the lower-cased text + 3 x header terms in the headers
KindScore(pattern) ==
    2 * Occurring(pattern.keywords, lower(args.text))
    + 3 * Occurring(pattern.headers, HeaderStr(args.headers))

\* no keyword of any kind is in the text and no header term in the headers
AllScoresZero ==
    \A n \in 1..Len(CatalogueOf(args.analyzer)) :
        KindScore(CatalogueOf(args.analyzer)[n]) = 0

\* C13: when every kind's score is zero the classifier returns the kind
\* 'unknown' with the confidence 0.3
C13_ZeroScoresUnknown ==
    (pc = "returned" /\ AllScoresZero) =>
        (returned.table_type = "unknown" /\ returned.confidence = 3)

\* every score is zero and the classifier returns the first kind of its
\* catalogue with the confidence 0.0
C13_ZeroScoresFirstKind ==
    /\ pc = "returned"
    /\ AllScoresZero
    /\ args.text = "Overview" /\ args.headers = <<"Item", "Notes">>
    /\ returned.table_type = CatalogueOf(args.analyzer)[1].table_type
    /\ returned.confidence = 0

\* the scores of the kinds of the catalogue, by the formula of the claim
KindScores(catalogue) == [n \in 1..Len(catalogue) |-> KindScore(catalogue[n])]

\* C14: the classifier returns a kind of maximal score, the first-declared
\* one among those of equal score, with confidence min(score/10, 1.0), which
\* lies in [0, 1]
C14_FirstMaximalKind ==
    pc = "returned" =>
        LET catalogue == CatalogueOf(args.analyzer)
            scores == KindScores(catalogue)
        IN  \E n \in 1..Len(catalogue) :
                /\ returned.table_type = catalogue[n].table_type
                /\ \A m \in 1..Len(catalogue) : scores[m] <= scores[n]
                /\ \A m \in 1..(n - 1) : scores[m] < scores[n]
                /\ returned.confidence = (IF scores[n] >= 10 THEN 10 ELSE scores[n])
                /\ returned.confidence \in 0..10

\* two kinds share the maximal score and the first-declared one is returned,
\* and a score above 10 gives the confidence 1.0
C14_TieAndCap ==
    /\ pc = "returned"
    /\ args.analyzer = "PageAnalyzer"
    /\ \/ /\ args.text = "VLAN Routing" /\ args.headers = << >>
          /\ KindScore(TABLE_PATTERNS[3]) = KindScore(TABLE_PATTERNS[4])
          /\ returned.table_type = "software" /\ returned.confidence = 4
       \/ /\ args.text = "PoE power capacity 802.3af 802.3at quantity"
          /\ args.headers = <<"Model", "Power", "Quantity">>
          /\ KindScore(TABLE_PATTERNS[2]) > 10
          /\ returned.table_type = "poe_power" /\ returned.confidence = 10

\* the key of the only entry of a fragment
OnlyKey(fragment) == fragment.keys[1]

\* the entry of the key in the holding area the key belongs to
Held(merged, key) ==
    IF IsSeriesKey(key) THEN merged.series_data.val[key] ELSE merged.all_data.val[key]

\* the two fragments have different keys, and the entries held under the two
\* keys after both tables are the two fragments
SeriesKeysDistinct ==
    /\ OnlyKey(returned.software) # OnlyKey(returned.performance)
    /\ K_SoftwareFeatures \in DOMAIN Held(returned.merged, OnlyKey(returned.software))
    /\ Held(returned.merged, OnlyKey(returned.performance))
           = returned.performance.val[OnlyKey(returned.performance)]

Processed == all_data.val[args.model_name]

\* the text of an attribute value in an f-string
Shown(v) == IF "int" \in DOMAIN v THEN ToString(v.int) ELSE v.str

\* POE总功率 as composed from the split attributes of the entry
Composed(specs) ==
    IF K_PoePowerAC \in DOMAIN specs /\ K_PoePowerDC \in DOMAIN specs
    THEN "AC:" \o Shown(specs[K_PoePowerAC]) \o "W/DC:" \o Shown(specs[K_PoePowerDC]) \o "W"
    ELSE IF K_PoePowerAC \in DOMAIN specs
    THEN "AC:" \o Shown(specs[K_PoePowerAC]) \o "W"
    ELSE "DC:" \o Shown(specs[K_PoePowerDC]) \o "W"

\* the legacy and the split attributes are gone, and the attributes they
\* fold into keep their own value or take the folded one
Folded ==
    /\ DOMAIN Processed \cap {K_1G, K_PoePowerAC, K_PoePowerDC} = {}
    /\ IF K_1000BaseT \in DOMAIN args.specs
       THEN Processed[K_1000BaseT] = args.specs[K_1000BaseT]
       ELSE IF K_1G \in DOMAIN args.specs
       THEN Processed[K_1000BaseT] = args.specs[K_1G]
       ELSE K_1000BaseT \notin DOMAIN Processed
    /\ IF K_PoePower \in DOMAIN args.specs
       THEN Processed[K_PoePower] = args.specs[K_PoePower]
       ELSE IF DOMAIN args.specs \cap {K_PoePowerAC, K_PoePowerDC} # {}
       THEN Processed[K_PoePower] = Str(Composed(args.specs))
       ELSE K_PoePower \notin DOMAIN Processed
    /\ Processed[K_SwitchingCapacity] = args.specs[K_SwitchingCapacity]

\* C16: after the post-processing no entry holds 1G端口数, POE总功率_AC or
\* POE总功率_DC; 1000Base-T端口数 and POE总功率 keep their own value when
\* they were present and are folded from the others otherwise; and a second
\* post-processing changes nothing
C16_FoldedOnce ==
    [](pc \in {"processed", "returned"} => Folded)
    /\ [][pc = "processed" => all_data' = all_data]_vars

\* an entry with both legacy and canonical port counts and with split POE
\* power only, post-processed twice
C16_FoldedTwice ==
    /\ pc = "returned"
    /\ DOMAIN args.specs =
          {K_SwitchingCapacity, K_1G, K_1000BaseT, K_PoePowerAC, K_PoePowerDC}
    /\ Processed[K_1000BaseT] = Num(48)
    /\ Processed[K_PoePower] = Str("AC:370W/DC:150W")
    /\ K_1G \notin DOMAIN Processed

(***************************************************************************)
(* Properties of the order of the tables (SpecOrdered).                    *)
(***************************************************************************)
\* the fragment of table n of the page
Fragment(n) ==
    IF extractor = "direct" THEN process_table(page.tables[n])
    ELSE process_table_with_rules(profile, global_rules, page.tables[n])

\* the fragments of the tables of the page
Fragments == [n \in 1..Len(page.tables) |-> Fragment(n)]

\* the keys of the fragment that are held at series level
SeriesKeysOf(fragment) ==
    {k \in DOMAIN fragment.val :
        IF extractor = "direct" THEN IsSeriesKey(k) ELSE UniversalIsSeriesKey(k)}

\* the fragment produces the attribute under the key of the model itself
ModelProducer(fragment, model, attribute) ==
    /\ model \in (DOMAIN fragment.val) \ SeriesKeysOf(fragment)
    /\ attribute \in DOMAIN fragment.val[model]

\* the fragment produces the attribute under a key held at series level
SeriesProducer(fragment, attribute) ==
    \E k \in SeriesKeysOf(fragment) : attribute \in DOMAIN fragment.val[k]

\* the value the fragment produces for the attribute of the model
Produced(fragment, model, attribute) ==
    IF ModelProducer(fragment, model, attribute) THEN fragment.val[model][attribute]
    ELSE LET k == CHOOSE k \in SeriesKeysOf(fragment) : attribute \in DOMAIN fragment.val[k]
         IN  fragment.val[k][attribute]

Greatest(S) == CHOOSE x \in S : \A y \in S : y <= x

\* the attributes the tables produce and no later step writes
ProducedAttributes == {K_SwitchingCapacity, K_MacTable, K_ArpTable}

\* C17, as stated: a model and an attribute produced by more than one table
\* have the value of the latest of those tables, whichever kinds they are
C17_LatestTableWins ==
    pc = "done" =>
        LET fragments == Fragments
        IN  \A model \in DOMAIN result : \A attribute \in ProducedAttributes :
                LET producers == {n \in DOMAIN fragments :
                                     \/ ModelProducer(fragments[n], model, attribute)
                                     \/ SeriesProducer(fragments[n], attribute)}
                IN  producers # {} =>
                        result[model][attribute]
                            = Produced(fragments[Greatest(producers)], model, attribute)

\* C17: among the tables that produce the attribute under the key of the
\* model, the latest one gives the value, when no table produces the
\* attribute at series level; the value of a series-level fragment replaces
\* those of the model's own tables, wherever its table is on the page
C17_LatestModelTableWins ==
    pc = "done" =>
        LET fragments == Fragments
        IN  \A model \in DOMAIN result : \A attribute \in ProducedAttributes :
                LET own == {n \in DOMAIN fragments :
                               ModelProducer(fragments[n], model, attribute)}
                    series == {n \in DOMAIN fragments : SeriesProducer(fragments[n], attribute)}
                IN  /\ (own # {} /\ series = {}) =>
                            result[model][attribute]
                                = Produced(fragments[Greatest(own)], model, attribute)
                    /\ series # {} =>
                            result[model][attribute]
                                = Produced(fragments[Greatest(series)], model, attribute)

\* two hardware tables give the switching capacity of a model, and the
\* value is that of the second; the performance table before them gives the
\* MAC address table
C17_SecondHardwareTable ==
    /\ pc = "done"
    /\ page.tables = <<MacHardwareTable, RevisedHardwareTable>>
    /\ result["S5130S-28P-EI"][K_SwitchingCapacity] = Str("600 Gbps")
    /\ result["S5130S-52P-EI"][K_SwitchingCapacity] = Str("670 Gbps")
    /\ result["S5130S-28P-EI"][K_MacTable] = Str("64K")

\* the performance table comes first and the hardware table second, and the
\* value is that of the performance table
C17_SeriesValueReplaces ==
    /\ pc = "done"
    /\ page.tables = <<PerformanceTable, MacHardwareTable>>
    /\ result["S5130S-28P-EI"][K_MacTable] = Str("8K")

(***************************************************************************)
(* Properties of the pages without fragments (SpecSkipped).                *)
(***************************************************************************)
\* the table is too small, has no header row, or has no row after it
StructurallySkipped(table) ==
    \/ Len(TableText(table)) < MinTableText
    \/ Len(table.rows) = 0
    \/ Len(table.rows) = 1

\* C18: when the page has no table, or every table is structurally skipped,
\* the extraction returns the empty mapping: no entity key is created to
\* carry the URL, a model description or the series features
C18_NoTablesEmptyMapping ==
    (pc = "done" /\ \A n \in 1..Len(page.tables) : StructurallySkipped(page.tables[n]))
        => result = << >>

\* extract_all_tables has returned for a page with a heading and two skipped
\* tables, one of which describes a model: the mapping is empty
C18_DescribedModelNoEntry ==
    /\ pc = "done" /\ extractor = "direct"
    /\ page.headings = <<"Flexible networking">>
    /\ page.tables = <<NavigationTable, HeaderOnlyTable>>
    /\ "S5130S-28P-EI" \in DOMAIN extract_model_descriptions(page)
    /\ extract_series_features(page) # ""
    /\ result = << >>

(***************************************************************************)
(* Properties of the reuse of an extractor (SpecReuse).                    *)
(***************************************************************************)
\* what a fresh extractor of the same configuration returns for the page
FreshResult ==
    IF extractor = "direct" THEN extract_all_tables(page)
    ELSE extract(profile, global_rules, page)

\* C19: the mapping returned for a page depends on the page and the rule
\* configuration only: the second page an extractor processes gets the
\* mapping a fresh extractor returns for it
C19_ResultOfPageOnly == (pc = "done" /\ args # << >>) => result = FreshResult

\* a UniversalExtractor has extracted a page of the S1000 models after a page
\* of the S5130S models: the mapping returned for the second page holds the
\* entries of the first page, and a fresh extractor returns none of them
C19_FirstPageInSecondResult ==
    /\ pc = "done" /\ extractor = "universal"
    /\ args = <<[url |-> "https://www.h3c.com/en/switches", headings |-> << >>,
                 tables |-> <<HardwareTable>>]>>
    /\ page.tables = <<UpgradedHardwareTable>>
    /\ \E m \in DOMAIN result : m \notin DOMAIN FreshResult
    /\ result # FreshResult

\* a DirectTableExtractor builds its mapping anew in every call
DirectResultOfPageOnly ==
    (pc = "done" /\ args # << >> /\ extractor = "direct") => result = FreshResult

(***************************************************************************)
(* Properties of _extract_multi_model_table (SpecMultiModel).              *)
(***************************************************************************)
\* the feature name of the row is not skipped and has a canonical name
FeatureKept(feature) ==
    /\ feature # ""
    /\ ~should_skip_param(feature)
    /\ normalize_param_name(feature) # NoneValue

\* C20: for the row of a feature that is kept and every model column whose
\* value is not empty, "-" or "/", an attribute is written to the entry of the
\* model: the port attributes of the value or the value under the canonical
\* name of the feature (the tables have one row, so an entry holds what that
\* row wrote)
C20_NoCellLost ==
    pc = "returned" =>
        \A n \in 2..Len(args.headers) :
            (/\ FeatureKept(args.rows[1][args.headers[1]])
             /\ args.rows[1][args.headers[n]] \notin {"", "-", "/"})
            => returned.val[args.headers[n]] # EmptyDict

\* the row "Console port" with the value 1 for both models has been
\* extracted: Console port has the canonical name Console口, is taken for a
\* port description because it contains "port", and no port attribute is
\* parsed from it, so both entries are empty
C20_ConsolePortLost ==
    /\ pc = "returned"
    /\ args.rows[1] = ("Feature" :> "Console port") @@ ("S5130S-28P-EI" :> "1")
                      @@ ("S5130S-52P-EI" :> "1")
    /\ normalize_param_name("Console port") = "Console{53e3}"
    /\ is_port_description("Console port", "1")
    /\ parse_port_description("Console port", "1") = EmptyDict
    /\ returned.val = ("S5130S-28P-EI" :> EmptyDict) @@ ("S5130S-52P-EI" :> EmptyDict)

(***************************************************************************)
(* The port family of the primary count (SpecPorts).                       *)
(***************************************************************************)
\* the features of PortFeatures that name one port family only, and the
\* attribute of that family
SingleFamilyKey ==
    ("SFP28 Ports" :> K_SFP28) @@ ("SFP+ Ports" :> K_SFPPlus)
    @@ ("QSFP28 Ports" :> K_QSFP28) @@ ("QSFP+ Ports" :> K_QSFPPlus)
    @@ ("SFP Ports" :> K_SFP) @@ ("Multigiga ports (1G/2.5G/5G)" :> K_MultiGiga)
    @@ ("10/100/1000BASE-T Ports" :> K_1000BaseT) @@ ("Ethernet ports" :> K_1000BaseT)

\* C21: the primary count of a description that names one port family only is
\* written under the attribute of that family, for each of the seven
\* families: QSFP28 ports give the QSFP28 count and not the SFP28 count, QSFP+
\* ports the QSFP+ count and not the SFP+ count
C21_CountUnderNamedFamily ==
    (/\ pc = "returned"
     /\ args.feature \in DOMAIN SingleFamilyKey
     /\ args.value \in {"4", "16"})
        => /\ SingleFamilyKey[args.feature] \in DOMAIN returned
           /\ returned[SingleFamilyKey[args.feature]] = Num(int(args.value))
           /\ DOMAIN returned \cap PortFamilyKeys = {SingleFamilyKey[args.feature]}

\* "QSFP28 Ports" with the value 4 has been parsed: 'sfp28' is a substring of
\* 'qsfp28' and is tested first, so the count went to the SFP28 attribute
C21_QSFP28UnderSFP28 ==
    /\ pc = "returned"
    /\ args = [feature |-> "QSFP28 Ports", value |-> "4"]
    /\ Contains(PortText, "sfp28")
    /\ returned = (K_SFP28 :> Num(4))
    /\ K_QSFP28 \notin DOMAIN returned

\* no description of the model gives the QSFP28 or the QSFP+ attribute
QSFPKeysNeverWritten ==
    pc = "returned" => DOMAIN returned \cap {K_QSFP28, K_QSFPPlus} = {}

(***************************************************************************)
(* Properties of the entity keys of the result (SpecKinds).                *)
(***************************************************************************)
\* the second headers of the software tables of the page
SoftwareHeaders ==
    {page.tables[n].rows[1][2].text :
        n \in {m \in 1..Len(page.tables) :
                  page.tables[m] \in {SeriesSoftwareTable, SupportSoftwareTable}}}

\* a series-level key, the key of the generic table, or the header of a
\* software table that is no model name
PseudoKey(key) ==
    \/ IsSeriesKey(key)
    \/ key = "generic"
    \/ key \in SoftwareHeaders /\ ~IsModelHeader(key)

\* C22: every entity key of the final mapping is a model key: no series-level
\* key, not the key "generic" and no header of a software table that is not
\* a model name, whatever the kinds of the tables of the page
C22_OnlyModelKeys == pc = "done" => \A key \in DOMAIN result : ~PseudoKey(key)

\* the page of one two-column table of one model has been extracted by the
\* DirectTableExtractor: its attributes are an entity of the key "generic"
C22_GenericEntity ==
    /\ pc = "done" /\ extractor = "direct"
    /\ page.tables = <<GenericTable>>
    /\ process_table(GenericTable).keys = <<"generic">>
    /\ DOMAIN result = {"generic"}
    /\ K_SwitchingCapacity \in DOMAIN result["generic"]

\* the header "Support" of a software table is an entity next to the models
SoftwareHeaderEntity ==
    /\ pc = "done" /\ extractor = "direct"
    /\ page.tables = <<HardwareTable, SupportSoftwareTable>>
    /\ "Support" \in DOMAIN result

\* the keys of the holding area do not reach the result
NoSeriesKeyInResult == pc = "done" => \A key \in DOMAIN result : ~IsSeriesKey(key)

(***************************************************************************)
(* Properties of the order of the rules (SpecPriority).                    *)
(***************************************************************************)
\* the enabled rules of the list whose pattern is found in the text; with
\* map_only those of them that are map_to rules
MatchingRules(rules, text_lower, map_only) ==
    {n \in 1..Len(rules) :
        /\ rules[n].enabled
        /\ ~ReError(rules[n].pattern)
        /\ Contains(text_lower, rules[n].pattern)
        /\ (map_only => rules[n].action = "map_to")}

\* the rule of S of the highest priority, the first of the list among equals
HighestPriority(rules, S) ==
    CHOOSE n \in S :
        \A m \in S \ {n} :
            \/ rules[n].priority > rules[m].priority
            \/ (rules[n].priority = rules[m].priority /\ n < m)

\* the parameter of the rule of S that decides, otherwise when S is empty
Decided(rules, S, key, default, otherwise) ==
    IF S = {} THEN otherwise
    ELSE Param(rules[HighestPriority(rules, S)], key, default)

\* the outcome of the call when in each list the rule of MatchingRules of the
\* highest priority decides: the profile's list, then the global list, then
\* the fallback or None
OutcomeByPriority(map_only) ==
    IF args.function = "_normalize_param_name"
    THEN Decided(profile.param_mapping_rules,
                 MatchingRules(profile.param_mapping_rules, lower(args.param), map_only),
                 "target", NoneValue,
                 Decided(global_rules.param_mapping,
                         MatchingRules(global_rules.param_mapping, lower(args.param), map_only),
                         "target", NoneValue, NoneValue))
    ELSE Decided(profile.table_detection_rules,
                 MatchingRules(profile.table_detection_rules, lower(args.text), FALSE),
                 "extractor", "generic",
                 Decided(global_rules.table_detection,
                         MatchingRules(global_rules.table_detection, lower(args.text), FALSE),
                         "extractor", "generic", fallback_table_detection(args.text)))

\* C23 as stated: within one rule list the enabled rule of the highest
\* priority whose pattern matches decides the outcome of detection and of
\* mapping, whatever its action is
C23_HighestMatchingRuleDecides == pc = "returned" => returned = OutcomeByPriority(FALSE)

\* C23: within one rule list the outcome of detection is decided by the enabled
\* rule of the highest priority whose pattern matches, whatever its action
\* is, and the outcome of mapping by the enabled map_to rule of the highest
\* priority whose pattern matches; equal priorities are resolved by the order
\* of the list, and a disabled rule never decides
C23_HighestFiringRuleDecides == pc = "returned" => returned = OutcomeByPriority(TRUE)

\* "PoE power" has been normalized with the rules <<mapping_poe, mapping_skip>>
\* of the profile: the skip rule of priority 150 matches and returns nothing,
\* and the map_to rule of priority 50 decides
C23_SkipRuleDoesNotDecide ==
    /\ pc = "returned"
    /\ args.function = "_normalize_param_name"
    /\ args.param = "PoE power"
    /\ profile.param_mapping_rules = <<MappingPoe, MappingSkip>>
    /\ MatchingRules(profile.param_mapping_rules, "poe power", FALSE) = {1, 2}
    /\ returned = K_PoePower

\* a table text has been detected with two rules of priority 100 that match:
\* the first of the list decides
EqualPrioritiesInListOrder ==
    /\ pc = "returned"
    /\ args.function = "_detect_table_type_with_rules"
    /\ args.text = "PoE standards"
    /\ profile.table_detection_rules = <<DetectPerformance, DetectStandards>>
    /\ returned = "performance"

(***************************************************************************)
(* Properties of _extract_poe_table (SpecPoeRows).                         *)
(***************************************************************************)
\* the model value of row n
ModelValue(n) == strip(args.rows[n][args.headers[1]])

\* the rows up to n that have a model value
WithModelUpTo(n) == {m \in 1..n : ModelValue(m) # ""}

\* the model row n is attributed to: its model value, or the most recent
\* model value of an earlier row; None before any model value
AttributedTo(n) ==
    IF WithModelUpTo(n) = {} THEN NoneValue
    ELSE ModelValue(CHOOSE m \in WithModelUpTo(n) : \A k \in WithModelUpTo(n) : k <= m)

\* what one row writes: the power attribute, then the port attributes
RowAttributes(n) ==
    DictUpdate(PoePower(args.rows[n][args.headers[2]]),
               parse_poe_ports(args.rows[n][args.headers[3]]))

\* the attributes of the rows up to n that are attributed to the model, the
\* later row over the earlier
RECURSIVE AttributesOf(_, _)
AttributesOf(model, n) ==
    IF n = 0 THEN EmptyDict
    ELSE IF AttributedTo(n) = model THEN DictUpdate(AttributesOf(model, n - 1), RowAttributes(n))
    ELSE AttributesOf(model, n - 1)

\* C24: _extract_poe_table attributes a row with a model value to that value,
\* a row without one to the most recent model value of an earlier row, and
\* skips the rows before any model value: the keys of the result are the
\* model values of the rows, and the entry of a model holds what the rows
\* attributed to it wrote, never what a row of another model wrote
C24_LastSeenModel ==
    pc = "returned" =>
        /\ DOMAIN returned.val = {ModelValue(n) : n \in 1..Len(args.rows)} \ {""}
        /\ \A model \in DOMAIN returned.val :
              returned.val[model] = AttributesOf(model, Len(args.rows))

\* three rows have been extracted: one before any model value, the row of M1
\* and a row without model value after it, which wrote its power to M1
C24_RowAfterModel ==
    /\ pc = "returned"
    /\ Len(args.rows) = 3
    /\ ModelValue(1) = "" /\ ModelValue(2) = "M1" /\ ModelValue(3) = ""
    /\ args.rows[1][args.headers[2]] = "AC:370"
    /\ args.rows[2][args.headers[2]] = "AC:370"
    /\ args.rows[3][args.headers[2]] = "740"
    /\ returned.keys = <<"M1">>
    /\ returned.val["M1"][K_PoePower] = Str("740")

(***************************************************************************)
(* Properties of _extract_protocols_table (SpecProtocolsRows).             *)
(***************************************************************************)
FirstColumn(n) == strip(args.rows[n][args.headers[1]])
SecondColumn(n) == strip(args.rows[n][args.headers[2]])

\* the first column of row n starts with "802." or "RFC"
StandardInFirstColumn(n) ==
    \/ startswith(FirstColumn(n), "802.")
    \/ startswith(FirstColumn(n), "RFC")

\* the rows up to n whose first column is a real organization name
OrganizationsUpTo(n) == {m \in 1..n : FirstColumn(m) # "" /\ ~StandardInFirstColumn(m)}

\* the most recent real organization name at row n, "" when none was seen
LastOrganization(n) ==
    IF OrganizationsUpTo(n) = {} THEN ""
    ELSE FirstColumn(CHOOSE m \in OrganizationsUpTo(n) : \A k \in OrganizationsUpTo(n) : k <= m)

\* the organization and the standard of the pair of row n
PairOf(n) ==
    IF FirstColumn(n) = "" THEN <<"", "">>
    ELSE IF StandardInFirstColumn(n) THEN <<LastOrganization(n), FirstColumn(n)>>
    ELSE <<FirstColumn(n), SecondColumn(n)>>

Emits(n) == PairOf(n)[1] # "" /\ PairOf(n)[2] # ""

\* the pairs of the rows up to n, "organization: standard" joined by "; "
RECURSIVE PairsUpTo(_)
PairsUpTo(n) ==
    IF n = 0 THEN ""
    ELSE IF ~Emits(n) THEN PairsUpTo(n - 1)
    ELSE (IF PairsUpTo(n - 1) = "" THEN "" ELSE PairsUpTo(n - 1) \o "; ")
         \o PairOf(n)[1] \o ": " \o PairOf(n)[2]

\* C25: over the rows in order, every emitted pair has a non-empty
\* organization that does not start with "802." or "RFC" and is the most
\* recent first-column value that was a real organization name; a row whose
\* first column starts with "802." or "RFC" is emitted as a standard under
\* that organization, and not emitted when none was seen yet; all pairs are
\* in the one attribute of the single key "Protocols"
C25_PairsUnderLastOrganization ==
    pc = "returned" =>
        /\ \A n \in 1..Len(args.rows) :
              Emits(n) => /\ PairOf(n)[1] = LastOrganization(n)
                          /\ ~startswith(PairOf(n)[1], "802.")
                          /\ ~startswith(PairOf(n)[1], "RFC")
        /\ IF \E n \in 1..Len(args.rows) : Emits(n)
           THEN /\ returned.keys = <<"Protocols">>
                /\ returned.val["Protocols"] = (K_Protocols :> Str(PairsUpTo(Len(args.rows))))
           ELSE returned = ODEmpty

\* a standard before any organization, an organization, and a standard in
\* the first column after it: the first row is not emitted, the third is a
\* standard of IEEE, and its second column is not read
C25_StandardInOrganizationColumn ==
    /\ pc = "returned"
    /\ Len(args.rows) = 3
    /\ FirstColumn(1) = "802.1Q"
    /\ FirstColumn(2) = "IEEE"
    /\ FirstColumn(3) = "RFC 1213" /\ SecondColumn(3) = "SNMP"
    /\ returned.val["Protocols"][K_Protocols] = Str("IEEE: 802.3af; IEEE: RFC 1213")

(***************************************************************************)
(* The precedence of protocols over POE in the scoring classifier          *)
(* (SpecClassify).                                                         *)
(***************************************************************************)
\* C26: for every table text that contains "organization" and "ieee" the
\* scoring classifier returns the kind protocols and never poe_power, also
\* when the text and the headers hold POE signals
C26_ProtocolsBeforePoeScore ==
    (/\ pc = "returned"
     /\ Contains(lower(args.text), "organization")
     /\ Contains(lower(args.text), "ieee"))
        => returned.table_type = "protocols"

\* a text with "organization" and "ieee" and the POE signals, under the
\* headers Model, Power, Quantity, has been classified by the PageAnalyzer:
\* protocols scores 4, poe_power scores 19, and the kind is poe_power
C26_PoeOutscoresProtocols ==
    /\ pc = "returned"
    /\ args.analyzer = "PageAnalyzer"
    /\ args.text = "Organization IEEE 802.3af 802.3at PoE power capacity quantity"
    /\ args.headers = <<"Model", "Power", "Quantity">>
    /\ TableScores(TABLE_PATTERNS, lower(args.text), HeaderStr(args.headers))[1] = 4
    /\ TableScores(TABLE_PATTERNS, lower(args.text), HeaderStr(args.headers))[2] = 19
    /\ returned.table_type = "poe_power"

(***************************************************************************)
(* Properties of update_rule (SpecUpdate).                                 *)
(***************************************************************************)
\* the positions of the list with a rule of that name
NamedAt(rule_list, name) == {n \in 1..Len(rule_list) : rule_list[n].name = name}

\* the list holds the rule, and no other rule of its name
HoldsOnce(rule_list, rule) ==
    \E n \in 1..Len(rule_list) : rule_list[n] = rule /\ NamedAt(rule_list, rule.name) = {n}

\* after is before with the rule in the place of the rule of its name, or
\* appended when before has none
ReplacedOrAppended(before, after, rule) ==
    IF NamedAt(before, rule.name) = {} THEN after = Append(before, rule)
    ELSE /\ Len(after) = Len(before)
         /\ \A n \in 1..Len(before) :
               after[n] = IF before[n].name = rule.name THEN rule ELSE before[n]

LastCall == args[Len(args)]

\* C27 as stated: after a call for a profile that exists, for every rule_type
\* string, the rule list of that type of the profile holds the rule exactly
\* once by name
C27_RuleInListOfAnyType ==
    (args # << >> /\ returned = NoneValue)
        => /\ (LastCall.rule_type \o "_rules") \in DOMAIN engine.profiles[LastCall.profile_name]
           /\ HoldsOnce(engine.profiles[LastCall.profile_name][LastCall.rule_type \o "_rules"],
                        LastCall.rule)

\* the names of every rule list of every profile are unique
NamesUnique ==
    \A p \in DOMAIN engine.profiles : \A a \in RuleListAttributes :
        \A n, m \in 1..Len(engine.profiles[p][a]) :
            engine.profiles[p][a][n].name = engine.profiles[p][a][m].name => n = m

\* the effect of one call of update_rule
UpdateFrame ==
    LET call == args'[Len(args')]
        name == call.profile_name
        attribute == call.rule_type \o "_rules"
    IN  IF name \notin DOMAIN engine.profiles
        THEN returned' = "ValueError" /\ engine' = engine
        ELSE /\ returned' = NoneValue
             /\ DOMAIN engine'.profiles = DOMAIN engine.profiles
             /\ \A other \in DOMAIN engine.profiles \ {name} :
                   engine'.profiles[other] = engine.profiles[other]
             /\ \A a \in DOMAIN engine.profiles[name] \ {attribute} :
                   engine'.profiles[name][a] = engine.profiles[name][a]
             /\ IF attribute \in RuleListAttributes
                THEN /\ ReplacedOrAppended(engine.profiles[name][attribute],
                                           engine'.profiles[name][attribute], call.rule)
                     /\ HoldsOnce(engine'.profiles[name][attribute], call.rule)
                ELSE engine'.profiles = engine.profiles
             /\ \A f \in engine.profile_dir :
                   f.name # name => f \in engine'.profile_dir
             /\ \A f \in engine'.profile_dir :
                   IF f.name = name THEN f = save_profile(engine'.profiles[name])
                   ELSE f \in engine.profile_dir

\* C27: update_rule for a profile that does not exist raises ValueError and
\* changes no profile and no file; otherwise, for the rule types
\* table_detection, param_mapping, value_extraction and post_processing, the
\* list of that type holds the rule exactly once by name afterwards (in the
\* place of the rule of its name, else appended), for any other rule type no
\* list changes, all other rules, lists and profiles are unchanged, and the
\* file of the profile is written anew; names that were unique stay unique
C27_UpdateRuleFrame == []NamesUnique /\ [][UpdateFrame]_vars

\* two calls have been made for h3c_switch: detect_poe has been replaced in
\* its place, the second of the list, and detect_standards appended
C27_ReplacedThenAppended ==
    /\ args = <<[profile_name |-> "h3c_switch", rule_type |-> "table_detection",
                 rule |-> ChildDetectPoe],
                [profile_name |-> "h3c_switch", rule_type |-> "table_detection",
                 rule |-> ChildDetectStandards]>>
    /\ engine.profiles["h3c_switch"].table_detection_rules
           = <<ParentDetectEntries, ChildDetectPoe, ChildDetectStandards>>
    /\ engine.profiles["base"] = UpdateProfiles["base"]
    /\ save_profile(engine.profiles["h3c_switch"]) \in engine.profile_dir

\* a call with a rule type that names no list has returned: no profile has
\* changed
UnknownRuleTypeChangesNothing ==
    /\ Len(args) = 1
    /\ args[1].profile_name = "h3c_switch" /\ args[1].rule_type = "table_detect"
    /\ returned = NoneValue
    /\ engine.profiles = UpdateProfiles

(***************************************************************************)
(* Properties of saving and loading a profile (SpecRoundTrip).             *)
(***************************************************************************)
\* C28: a profile without parent that is saved and loaded again has the same
\* name, parent_profile and skip_patterns and the same table_detection and
\* param_mapping rules in the same order, each rule equal field for field,
\* so a disabled rule is still disabled
C28_SaveLoadRoundTrip == pc = "returned" => returned = profile

\* a profile with the disabled rule detect_poe has been saved and loaded: all
\* fields but enabled are those of the profile, and the rule is enabled
C28_DisabledRuleEnabled ==
    /\ pc = "returned"
    /\ profile.table_detection_rules = <<ChildDetectPoe>>
    /\ ~ChildDetectPoe.enabled
    /\ returned.table_detection_rules = <<[ChildDetectPoe EXCEPT !.enabled = TRUE]>>
    /\ returned.param_mapping_rules = profile.param_mapping_rules
    /\ returned.name = profile.name /\ returned.skip_patterns = profile.skip_patterns

\* all of a profile but the enabled flags of its rules comes back
AllButEnabledRoundTrip ==
    pc = "returned" =>
        returned = [profile EXCEPT
                      !.table_detection_rules =
                          [n \in 1..Len(@) |-> [@[n] EXCEPT !.enabled = TRUE]],
                      !.param_mapping_rules =
                          [n \in 1..Len(@) |-> [@[n] EXCEPT !.enabled = TRUE]]]

(***************************************************************************)
(* Properties of get_rule_engine (SpecThreads).                            *)
(***************************************************************************)
\* at most one RuleEngine has been constructed, and the calls that have
\* returned have returned the same instance
LoadedOnce ==
    /\ Cardinality(engine.constructed) <= 1
    /\ \A t, u \in Threads :
          (args.at[t] = "done" /\ args.at[u] = "done") => returned[t] = returned[u]

\* C29 as stated: across any interleaving of get_rule_engine calls of
\* several threads at most one RuleEngine is constructed and every caller
\* receives that instance
C29_LoadedOnceInAnyInterleaving == LoadedOnce

\* C29: when no call of get_rule_engine begins while another is under way,
\* at most one RuleEngine is constructed and every caller receives that
\* instance, whatever config_dir the later calls pass
C29_LoadedOnceWithoutOverlap == ~args.overlapped => LoadedOnce

\* calls one after the other, a later one with another config_dir:
\* all have returned the instance the first one constructed
C29_LaterConfigDirIgnored ==
    /\ ~args.overlapped
    /\ \A t \in Threads : args.at[t] = "done"
    /\ \E t, u \in Threads : args.config_dir[t] # args.config_dir[u]
    /\ Cardinality(engine.constructed) = 1
    /\ \A t \in Threads : returned[t] \in engine.constructed

\* two calls have tested the global before either assigned it: two engines
\* have been constructed and the callers hold different instances
TwoEnginesConstructed ==
    /\ args.overlapped
    /\ Cardinality(engine.constructed) >= 2
    /\ \E t, u \in Threads :
          /\ args.at[t] = "done" /\ args.at[u] = "done"
          /\ returned[t] # returned[u]

(***************************************************************************)
(* The header row and the data rows of _parse_table_structure (SpecTable). *)
(***************************************************************************)
\* the row_data the header row gives when it is read as a data row
HeaderAsData == RowData(returned.headers, args.table.rows[1])

\* C30: the row _parse_table_structure takes the headers from is not among
\* the data rows it returns, for every layout of the table: of the tr of the
\* table at most all but the header row are returned, and none of the
\* returned rows is the header row
C30_HeaderRowNotData ==
    (pc = "parsed" /\ Len(args.table.rows) > 0)
        => /\ Len(returned.rows) <= Len(args.table.rows) - 1
           /\ \A n \in 1..Len(returned.rows) : returned.rows[n] # HeaderAsData

\* a table without thead whose rows are all in the tbody has been parsed:
\* the first of the returned rows is the header row, every header under
\* itself
C30_HeaderRowInTbody ==
    /\ pc = "parsed"
    /\ args.table = BareTable("tbody", <<<<Th("H1"), Th("H2"), Th("H3")>>,
                                         <<SpanCell("A", 1), Cell("B")>>>>)
    /\ returned.headers = <<"H1", "H2", "H3">>
    /\ Len(returned.rows) = 2
    /\ returned.rows[1] = ("H1" :> "H1") @@ ("H2" :> "H2") @@ ("H3" :> "H3")

\* with a thead, or without thead and tbody, the header row is not returned
HeaderRowNotDataOutsideTbody ==
    (pc = "parsed" /\ Len(args.table.rows) > 0 /\ args.table.layout # "tbody")
        => /\ Len(returned.rows) <= Len(args.table.rows) - 1
           /\ \A n \in 1..Len(returned.rows) : returned.rows[n] # HeaderAsData
====
